---- MODULE Spec2Model ----
(***************************************************************************)
(* A model of kanister's block-storage providers for AWS: the EBS backend  *)
(* (pkg/blockstorage/awsebs/awsebs.go) and the EFS backend, which stores   *)
(* its snapshots as AWS Backup recovery points                             *)
(* (pkg/blockstorage/awsefs/awsefs.go); and of the reconciler of           *)
(* ActionSets (pkg/controllerv2/controllers/actionset_controller.go).      *)
(*                                                                         *)
(* Six specifications are given.                                           *)
(*   PureSpec  the pure helpers: the static region-to-zone table, the      *)
(*             mount-target tag encoding of the EFS backend, and VolumeGet *)
(*             applied to the answer of a describe.                        *)
(*   Spec      volume and snapshot deletion on both backends against a     *)
(*             backend that holds resources and answers each request.      *)
(*   CopySpec  ebsStorage.SnapshotCopy, from validation to the returned    *)
(*             snapshot, with the wait for the copy to complete.           *)
(*   WaitSpec  the calls that wait for a resource: volume creation on both *)
(*             backends, SnapshotCreateWaitForCompletion and SnapshotCopy; *)
(*             WaitFairSpec adds that the call keeps running.              *)
(*   EfsSpec   the calls of the EFS backend that take several requests:    *)
(*             SnapshotCreate, VolumeCreateFromSnapshot and VolumesList.   *)
(*   ReconcileSpec  Reconcile of an ActionSet against an API server whose  *)
(*             users create, delete and update the object meanwhile.       *)
(***************************************************************************)
EXTENDS Integers, Sequences, FiniteSets, TLC

VARIABLES
    call,               \* PureSpec: the helper called last and its arguments
    ret,                \* PureSpec: what that call returned
    ebsVolumes,         \* EC2: the IDs of the EBS volumes that exist
    ebsSnapshots,       \* EC2: snapshot ID -> snapshot record or NoSnapshot
    efsFileSystems,     \* EFS: the IDs of the file systems that exist
    efsRecoveryPoints,  \* AWS Backup: the ARNs of the recovery points in the vault
    dryRun,             \* EC2.DryRun of the provider's client
    providerRegion,     \* the region the provider's client is bound to
    last,               \* Spec: the provider operation that returned last
    pc,                 \* CopySpec, WaitSpec: where the provider call stands
    op,                 \* CopySpec, WaitSpec: the arguments of the call in progress
    reqs,               \* CopySpec, WaitSpec: the backend requests the call has issued
    out,                \* CopySpec, WaitSpec: what the call returned
    ctxDone,            \* CopySpec, WaitSpec: whether the call's context is cancelled
    lifecycle,          \* EC2, EFS: volume or file system ID -> its state
    sleeps,             \* how often the wait of the call has slept
    seen,               \* what the describes of that wait have observed, in order
    efsBackend,         \* EfsSpec: what EFS and AWS Backup hold besides the above
    cluster             \* ReconcileSpec: the ActionSet the API server holds

pureVars    == <<call, ret>>
backendVars == <<ebsVolumes, ebsSnapshots, efsFileSystems, efsRecoveryPoints>>
clientVars  == <<dryRun, providerRegion>>
deleteVars  == <<last>>
copyVars    == <<pc, op, reqs, out, ctxDone>>
waitVars    == <<sleeps, seen>>
efsVars     == <<efsBackend>>
controllerVars == <<cluster>>
vars        == <<call, ret, ebsVolumes, ebsSnapshots, efsFileSystems,
                 efsRecoveryPoints, dryRun, providerRegion, last,
                 pc, op, reqs, out, ctxDone, lifecycle, sleeps, seen,
                 efsBackend, cluster>>

\* A nil pointer, a nil slice or a nil map.
Nil == [nil |-> TRUE]

(***************************************************************************)
(* Strings.  TLC treats a string as a sequence of characters: Len, \o and  *)
(* SubSeq apply to it.                                                     *)
(***************************************************************************)

\* strings.HasPrefix
HasPrefix(s, prefix) ==
    /\ Len(s) >= Len(prefix)
    /\ SubSeq(s, 1, Len(prefix)) = prefix

\* The index of the first occurrence of the one-character sep in s, 0 if none.
IndexOf(s, sep) ==
    IF \E i \in 1..Len(s) : SubSeq(s, i, i) = sep
    THEN CHOOSE i \in 1..Len(s) :
            /\ SubSeq(s, i, i) = sep
            /\ \A j \in 1..(i - 1) : SubSeq(s, j, j) # sep
    ELSE 0

\* strings.Split for a one-character separator: the substrings between the
\* separators, <<s>> when s holds none.
RECURSIVE Split(_, _)
Split(s, sep) ==
    LET i == IndexOf(s, sep)
    IN  IF i = 0
        THEN <<s>>
        ELSE <<SubSeq(s, 1, i - 1)>> \o Split(SubSeq(s, i + 1, Len(s)), sep)

\* strings.Join
RECURSIVE Join(_, _)
Join(elems, sep) ==
    IF Len(elems) = 0 THEN ""
    ELSE IF Len(elems) = 1 THEN elems[1]
    ELSE elems[1] \o sep \o Join(Tail(elems), sep)

(***************************************************************************)
(* The region-to-zone table of the EBS backend.                            *)
(***************************************************************************)

\* staticRegionToZones: the zones of a region, or an error for a region the
\* switch does not list.
staticRegionToZones(region) ==
    CASE region = "ap-south-1" ->
        [zones |-> <<"ap-south-1a", "ap-south-1b">>, err |-> FALSE]
      [] region = "eu-west-3" ->
        [zones |-> <<"eu-west-3a", "eu-west-3b", "eu-west-3c">>, err |-> FALSE]
      [] region = "eu-north-1" ->
        [zones |-> <<"eu-north-1a", "eu-north-1b", "eu-north-1c">>, err |-> FALSE]
      [] region = "eu-west-2" ->
        [zones |-> <<"eu-west-2a", "eu-west-2b", "eu-west-2c">>, err |-> FALSE]
      [] region = "eu-west-1" ->
        [zones |-> <<"eu-west-1a", "eu-west-1b", "eu-west-1c">>, err |-> FALSE]
      [] region = "ap-northeast-2" ->
        [zones |-> <<"ap-northeast-2a", "ap-northeast-2c">>, err |-> FALSE]
      [] region = "ap-northeast-1" ->
        [zones |-> <<"ap-northeast-1a", "ap-northeast-1c", "ap-northeast-1d">>,
         err |-> FALSE]
      [] region = "sa-east-1" ->
        [zones |-> <<"sa-east-1a", "sa-east-1c">>, err |-> FALSE]
      [] region = "ca-central-1" ->
        [zones |-> <<"ca-central-1a", "ca-central-1b">>, err |-> FALSE]
      [] region = "ap-southeast-1" ->
        [zones |-> <<"ap-southeast-1a", "ap-southeast-1b", "ap-southeast-1c">>,
         err |-> FALSE]
      [] region = "ap-southeast-2" ->
        [zones |-> <<"ap-southeast-2a", "ap-southeast-2b", "ap-southeast-2c">>,
         err |-> FALSE]
      [] region = "eu-central-1" ->
        [zones |-> <<"eu-central-1a", "eu-central-1b", "eu-central-1c">>,
         err |-> FALSE]
      [] region = "us-east-1" ->
        [zones |-> <<"us-east-1a", "us-east-1b", "us-east-1c", "us-east-1d",
                     "us-east-1e", "us-east-1f">>, err |-> FALSE]
      [] region = "us-east-2" ->
        [zones |-> <<"us-east-2a", "us-east-2b", "us-east-2c">>, err |-> FALSE]
      [] region = "us-west-1" ->
        [zones |-> <<"us-west-1a", "us-west-1b">>, err |-> FALSE]
      [] region = "us-west-2" ->
        [zones |-> <<"us-west-2a", "us-west-2b", "us-west-2c">>, err |-> FALSE]
      [] OTHER ->
        [zones |-> Nil, err |-> TRUE]

\* FromRegion that answers an unlisted region with an empty zone list.
FromRegion_EmptyForUnlisted(region) ==
    IF staticRegionToZones(region).err
    THEN [zones |-> <<>>, err |-> FALSE]
    ELSE staticRegionToZones(region)

\* ebsStorage.FromRegion: falls back to the static table.
FromRegion(region) == staticRegionToZones(region)

\* The region names the switch of staticRegionToZones lists.
TableRegions ==
    {"ap-south-1", "eu-west-3", "eu-north-1", "eu-west-2", "eu-west-1",
     "ap-northeast-2", "ap-northeast-1", "sa-east-1", "ca-central-1",
     "ap-southeast-1", "ap-southeast-2", "eu-central-1", "us-east-1",
     "us-east-2", "us-west-1", "us-west-2"}

\* The regions FromRegion is called with: the listed ones, and names it does
\* not list (the empty string, a zone name, regions outside the table).
RegionInputs ==
    TableRegions \cup {"", "us-east-1a", "us-east-3", "cn-north-1",
                       "us-gov-west-1", "me-south-1", "US-EAST-1"}

\* The zone suffixes a..f.
ZoneLetters == {"a", "b", "c", "d", "e", "f"}

(***************************************************************************)
(* The mount-target tags of the EFS backend.                               *)
(***************************************************************************)

\* securityGroupSeperator: the separator of a mount-target tag value.
securityGroupSeperator == "+"

\* mountTargetKeyPrefix: the prefix of the key of a mount-target tag.
mountTargetKeyPrefix == "kasten.io/aws-mount-target/"

\* mountTargetKey: the tag key of a mount target.
mountTargetKey(mountTargetID) == mountTargetKeyPrefix \o mountTargetID

\* mountTargetValue: the subnet ID, the separator, and the security groups
\* joined by the separator.
mountTargetValue(subnetID, securityGroups) ==
    subnetID \o securityGroupSeperator
             \o Join(securityGroups, securityGroupSeperator)

\* parseMountTargetKey: the key with the prefix cut off.
parseMountTargetKey(key) ==
    IF ~HasPrefix(key, mountTargetKeyPrefix)
    THEN [id |-> "", err |-> TRUE]
    ELSE [id |-> SubSeq(key, Len(mountTargetKeyPrefix) + 1, Len(key)),
          err |-> FALSE]

\* parseMountTargetValue that takes a value without a separator as a subnet
\* with no security groups.
parseMountTargetValue_NoLengthCheck(value) ==
    LET tokens == Split(value, securityGroupSeperator)
    IN  [mt  |-> [subnetID |-> tokens[1],
                  securityGroups |->
                      IF Len(tokens) > 1 /\ Len(tokens[2]) # 0
                      THEN Tail(tokens) ELSE <<>>],
         err |-> FALSE]

\* parseMountTargetValue that keeps the subnet among the security groups.
parseMountTargetValue_KeepsHead(value) ==
    LET tokens == Split(value, securityGroupSeperator)
    IN  IF Len(tokens) <= 1
        THEN [mt |-> Nil, err |-> TRUE]
        ELSE [mt  |-> [subnetID |-> tokens[1],
                       securityGroups |->
                           IF Len(tokens[2]) # 0 THEN tokens ELSE <<>>],
              err |-> FALSE]

\* parseMountTargetValue: the string up to the first separator is the subnet
\* ID, the separator divides the security groups after it.
parseMountTargetValue(value) ==
    LET tokens == Split(value, securityGroupSeperator)
    IN  IF Len(tokens) <= 1
        THEN [mt |-> Nil, err |-> TRUE]
        ELSE [mt  |-> [subnetID |-> tokens[1],
                       securityGroups |->
                           IF Len(tokens[2]) # 0 THEN Tail(tokens) ELSE <<>>],
              err |-> FALSE]

\* The empty map.
EmptyMap == [k \in {} |-> ""]

\* The loop of filterAndGetMountTargetsFromTags that passes a mount-target
\* tag on among the filtered tags as well.
RECURSIVE filterLoop_PassesMountTargetTag(_, _, _, _)
filterLoop_PassesMountTargetTag(tags, order, filteredTags, mts) ==
    IF Len(order) = 0
    THEN [filteredTags |-> filteredTags, mountTargets |-> mts, err |-> FALSE]
    ELSE LET k == Head(order)
             v == tags[k]
         IN  IF HasPrefix(k, mountTargetKeyPrefix)
             THEN LET id == parseMountTargetKey(k)
                      mt == parseMountTargetValue(v)
                  IN  IF id.err \/ mt.err
                      THEN [filteredTags |-> Nil, mountTargets |-> Nil,
                            err |-> TRUE]
                      ELSE filterLoop_PassesMountTargetTag(
                               tags, Tail(order), (k :> v) @@ filteredTags,
                               (id.id :> mt.mt) @@ mts)
             ELSE filterLoop_PassesMountTargetTag(
                      tags, Tail(order), (k :> v) @@ filteredTags, mts)

\* The body of the loop of filterAndGetMountTargetsFromTags over the keys of
\* tags in the order the map iteration yields them.
RECURSIVE filterLoop(_, _, _, _)
filterLoop(tags, order, filteredTags, mts) ==
    IF Len(order) = 0
    THEN [filteredTags |-> filteredTags, mountTargets |-> mts, err |-> FALSE]
    ELSE LET k == Head(order)
             v == tags[k]
         IN  IF HasPrefix(k, mountTargetKeyPrefix)
             THEN LET id == parseMountTargetKey(k)
                      mt == parseMountTargetValue(v)
                  IN  IF id.err \/ mt.err
                      THEN [filteredTags |-> Nil, mountTargets |-> Nil,
                            err |-> TRUE]
                      ELSE filterLoop(tags, Tail(order), filteredTags,
                                      (id.id :> mt.mt) @@ mts)
             ELSE filterLoop(tags, Tail(order), (k :> v) @@ filteredTags, mts)

\* filterAndGetMountTargetsFromTags: the tags that are no mount-target tags,
\* and the mount targets the others decode to.
filterAndGetMountTargetsFromTags(tags, order) ==
    filterLoop(tags, order, EmptyMap, EmptyMap)

\* kantags.Union: the tags of both maps; a key of both keeps the value of
\* the first map.
Union(first, second) == first @@ second

\* efsRestoreTags: the metadata a restore job needs to make a new file
\* system.  The creation token is a random string.
efsRestoreTags ==
    [k \in {"newFileSystem", "CreationToken", "Encrypted", "PerformanceMode"}
        |-> CASE k = "newFileSystem"   -> "true"
              [] k = "CreationToken"   -> "rand.String(16)"
              [] k = "Encrypted"       -> "false"
              [] k = "PerformanceMode" -> "generalPurpose"]

\* efs.VolumeCreateFromSnapshot, from the tags of the recovery point to the
\* metadata of the StartRestoreJobInput: the mount-target tags are filtered
\* out and decoded, the restore tags are added.
restoreMetadata(rpTags, order) ==
    LET f == filterAndGetMountTargetsFromTags(rpTags, order)
    IN  IF f.err
        THEN [filteredTags |-> Nil, mountTargets |-> Nil, metadata |-> Nil,
              err |-> TRUE]
        ELSE [filteredTags |-> f.filteredTags,
              mountTargets |-> f.mountTargets,
              metadata     |-> Union(f.filteredTags, efsRestoreTags),
              err          |-> FALSE]

(***************************************************************************)
(* The inputs of the pure helpers.                                         *)
(***************************************************************************)

\* The characters of the modelled tag values and IDs.
Alphabet == {"a", "b", securityGroupSeperator}

\* The longest tag value parseMountTargetValue is called with.
MaxValueLen == 4

\* The longest subnet or security-group ID that is encoded.
MaxIDLen == 2

\* The strings over Alphabet of length at most n.
RECURSIVE StringsUpTo(_)
StringsUpTo(n) ==
    IF n = 0 THEN {""}
    ELSE LET shorter == StringsUpTo(n - 1)
         IN  shorter \cup {s \o c : s \in shorter, c \in Alphabet}

ValueInputs == StringsUpTo(MaxValueLen)
IDInputs    == StringsUpTo(MaxIDLen)

\* The security-group lists that are encoded: none, one or two groups.
GroupListInputs ==
    {<<>>} \cup {<<g>> : g \in IDInputs}
           \cup {<<g, h>> : g \in IDInputs, h \in IDInputs}

\* The tags of a recovery point: ordinary tags and mount-target tags, with
\* well-formed and malformed values.
TagKeyInputs ==
    {"app", mountTargetKey("fsmt-1"), mountTargetKey("fsmt-2")}
TagValueInputs == {"v", "a+b", "a+", "a", "+b"}
TagMapInputs ==
    UNION {[keys -> TagValueInputs] : keys \in SUBSET TagKeyInputs}

\* The tags of the recovery point a volume is restored from: an ordinary
\* tag, a tag whose key holds the reserved prefix but does not start with it,
\* the reserved prefix alone as a key, and a mount-target tag.
RestoreTagKeyInputs ==
    {"app", "x/" \o mountTargetKeyPrefix \o "fsmt-1", mountTargetKeyPrefix,
     mountTargetKey("fsmt-1")}
RestoreTagValueInputs == {"v", "a+b", "a"}
RestoreTagMapInputs ==
    UNION {[keys -> RestoreTagValueInputs] :
               keys \in SUBSET RestoreTagKeyInputs}

\* The orders in which a range over a map may yield its keys.
Orders(keys) ==
    {o \in [1..Cardinality(keys) -> keys] :
        \A i, j \in 1..Cardinality(keys) : i # j => o[i] # o[j]}

(***************************************************************************)
(* PureSpec: the helpers applied to their inputs.                          *)
(***************************************************************************)

\* The calls PureSpec starts from, one per helper and input.
CallInputs ==
    {[op |-> "FromRegion", region |-> region] : region \in RegionInputs}
    \cup
    {[op |-> "parseMountTargetValue", value |-> value] : value \in ValueInputs}
    \cup
    {[op |-> "encodeDecode", subnetID |-> subnetID,
      securityGroups |-> securityGroups] :
        subnetID \in IDInputs, securityGroups \in GroupListInputs}
    \cup
    UNION {{[op |-> "filterAndGetMountTargetsFromTags", tags |-> tags,
             order |-> order] : order \in Orders(DOMAIN tags)} :
           tags \in TagMapInputs}
    \cup
    UNION {{[op |-> "restoreMetadata", tags |-> tags, order |-> order] :
               order \in Orders(DOMAIN tags)} :
           tags \in RestoreTagMapInputs}

\* The call has not returned yet.
NotReturned == [returned |-> FALSE]

PureUnchanged ==
    UNCHANGED <<call, backendVars, clientVars, deleteVars, copyVars,
                lifecycle, waitVars, efsVars, controllerVars>>

CallFromRegion ==
    /\ call.op = "FromRegion"
    /\ ret = NotReturned
    /\ ret' = FromRegion(call.region)
    /\ PureUnchanged

CallParseMountTargetValue ==
    /\ call.op = "parseMountTargetValue"
    /\ ret = NotReturned
    /\ ret' = parseMountTargetValue(call.value)
    /\ PureUnchanged

\* getMountPointAndSecurityGroupTags encodes a mount target as a tag value,
\* and filterAndGetMountTargetsFromTags decodes that value later.
CallEncodeDecode ==
    /\ call.op = "encodeDecode"
    /\ ret = NotReturned
    /\ ret' = parseMountTargetValue(
                  mountTargetValue(call.subnetID, call.securityGroups))
    /\ PureUnchanged

CallFilterAndGetMountTargetsFromTags ==
    /\ call.op = "filterAndGetMountTargetsFromTags"
    /\ ret = NotReturned
    /\ ret' = filterAndGetMountTargetsFromTags(call.tags, call.order)
    /\ PureUnchanged

\* efs.VolumeCreateFromSnapshot builds the metadata of the restore job from
\* the tags of the recovery point.
CallRestoreMetadata ==
    /\ call.op = "restoreMetadata"
    /\ ret = NotReturned
    /\ ret' = restoreMetadata(call.tags, call.order)
    /\ PureUnchanged

(***************************************************************************)
(* The backends: EC2 (volumes, snapshots), EFS (file systems) and AWS      *)
(* Backup (recovery points), as far as the provider's requests see them.   *)
(***************************************************************************)

\* A nil error.
NoErr == "nil"

VolIDs  == {"vol-1", "vol-2"}
SnapIDs == {"snap-1", "snap-2", "snap-3"}
FsIDs   == {"fs-1", "fs-2"}
RpARNs  == {"arn:rp-1", "arn:rp-2"}
Regions == {"us-east-1", "us-west-2"}

\* No snapshot of that ID.
NoSnapshot == [exists |-> FALSE]

\* The snapshot every copy is taken from, as EC2 holds it.
SourceSnapshot ==
    [exists |-> TRUE, region |-> "us-east-1", state |-> "completed",
     volumeId |-> "vol-1", size |-> 1, encrypted |-> FALSE,
     tags |-> EmptyMap]

\* isVolNotFoundErr: the error code of EC2 for a volume that does not exist.
isVolNotFoundErr(err) == err = "InvalidVolume.NotFound"

\* isSnapNotFoundErr: the error code of EC2 for a snapshot that does not exist.
isSnapNotFoundErr(err) == err = "InvalidSnapshot.NotFound"

\* isDryRunErr: the error code of EC2 for a dry-run request that would succeed.
isDryRunErr(err) == err = "DryRunOperation"

\* isVolumeNotFound: the error code of EFS for a file system that does not exist.
isVolumeNotFound(err) == err = "FileSystemNotFound"

\* EC2 DeleteVolume: the answers EC2 may give and the volumes left after each.
ec2DeleteVolume(volumes, id, dry) ==
    {[err |-> "InternalError", after |-> volumes]} \cup
    (IF id \notin volumes
     THEN {[err |-> "InvalidVolume.NotFound", after |-> volumes]}
     ELSE IF dry
     THEN {[err |-> "DryRunOperation", after |-> volumes]}
     ELSE {[err |-> NoErr, after |-> volumes \ {id}]})

\* EC2 DeleteSnapshot: the answers and the snapshots left after each.
ec2DeleteSnapshot(snapshots, id, dry) ==
    {[err |-> "InternalError", after |-> snapshots]} \cup
    (IF ~snapshots[id].exists
     THEN {[err |-> "InvalidSnapshot.NotFound", after |-> snapshots]}
     ELSE IF dry
     THEN {[err |-> "DryRunOperation", after |-> snapshots]}
     ELSE {[err |-> NoErr,
            after |-> [snapshots EXCEPT ![id] = NoSnapshot]]})

\* EFS DeleteFileSystem: the answers and the file systems left after each.
efsDeleteFileSystem(fileSystems, id) ==
    {[err |-> "InternalServerError", after |-> fileSystems]} \cup
    (IF id \notin fileSystems
     THEN {[err |-> "FileSystemNotFound", after |-> fileSystems]}
     ELSE {[err |-> NoErr, after |-> fileSystems \ {id}]})

\* AWS Backup DeleteRecoveryPoint: the answers and the recovery points left.
backupDeleteRecoveryPoint(recoveryPoints, arn) ==
    {[err |-> "ServiceUnavailableException", after |-> recoveryPoints]} \cup
    (IF arn \notin recoveryPoints
     THEN {[err |-> "ResourceNotFoundException", after |-> recoveryPoints]}
     ELSE {[err |-> NoErr, after |-> recoveryPoints \ {arn}]})

(***************************************************************************)
(* Spec: VolumeDelete and SnapshotDelete of both providers.  Each takes    *)
(* the error of the backend's answer and gives the error it returns.       *)
(***************************************************************************)

\* ebsStorage.VolumeDelete that returns every error of the backend.
ebsVolumeDelete_NotFoundIsError(err) ==
    IF err # NoErr /\ ~isDryRunErr(err)
    THEN "Failed to delete volume"
    ELSE NoErr

\* ebsStorage.VolumeDelete, after DeleteVolumeWithContext has answered err.
ebsVolumeDelete(err) ==
    IF isVolNotFoundErr(err)
    THEN NoErr
    ELSE IF err # NoErr /\ ~isDryRunErr(err)
    THEN "Failed to delete volume"
    ELSE NoErr

\* ebsStorage.SnapshotDelete, after DeleteSnapshotWithContext has answered err.
ebsSnapshotDelete(err) ==
    IF isSnapNotFoundErr(err)
    THEN NoErr
    ELSE IF err # NoErr /\ ~isDryRunErr(err)
    THEN "Failed to delete snapshot"
    ELSE NoErr

\* efs.VolumeDelete, after DeleteFileSystemWithContext has answered err.
efsVolumeDelete(err) ==
    IF isVolumeNotFound(err) THEN NoErr ELSE err

\* efs.SnapshotDelete, after DeleteRecoveryPointWithContext has answered err.
efsSnapshotDelete(err) == err

\* What is kept of an operation that has returned: the backend's answer, the
\* error returned, whether the backend's state changed, and whether the
\* operation before it was the same one on the same ID and succeeded.
Returned(backend, name, id, answer, err, mutated) ==
    [backend |-> backend, op |-> name, id |-> id, answer |-> answer,
     err |-> err, mutated |-> mutated,
     repeated |-> /\ last.backend = backend
                  /\ last.op = name
                  /\ last.id = id
                  /\ last.err = NoErr]

DeleteUnchanged ==
    UNCHANGED <<pureVars, clientVars, copyVars, lifecycle, waitVars,
                efsVars, controllerVars>>

EbsVolumeDelete ==
    \E id \in VolIDs :
        \E a \in ec2DeleteVolume(ebsVolumes, id, dryRun) :
            /\ ebsVolumes' = a.after
            /\ last' = Returned("EBS", "VolumeDelete", id, a.err,
                                ebsVolumeDelete(a.err), a.after # ebsVolumes)
            /\ UNCHANGED <<ebsSnapshots, efsFileSystems, efsRecoveryPoints>>
            /\ DeleteUnchanged

EbsSnapshotDelete ==
    \E id \in SnapIDs :
        \E a \in ec2DeleteSnapshot(ebsSnapshots, id, dryRun) :
            /\ ebsSnapshots' = a.after
            /\ last' = Returned("EBS", "SnapshotDelete", id, a.err,
                                ebsSnapshotDelete(a.err),
                                a.after # ebsSnapshots)
            /\ UNCHANGED <<ebsVolumes, efsFileSystems, efsRecoveryPoints>>
            /\ DeleteUnchanged

EfsVolumeDelete ==
    \E id \in FsIDs :
        \E a \in efsDeleteFileSystem(efsFileSystems, id) :
            /\ efsFileSystems' = a.after
            /\ last' = Returned("EFS", "VolumeDelete", id, a.err,
                                efsVolumeDelete(a.err),
                                a.after # efsFileSystems)
            /\ UNCHANGED <<ebsVolumes, ebsSnapshots, efsRecoveryPoints>>
            /\ DeleteUnchanged

EfsSnapshotDelete ==
    \E arn \in RpARNs :
        \E a \in backupDeleteRecoveryPoint(efsRecoveryPoints, arn) :
            /\ efsRecoveryPoints' = a.after
            /\ last' = Returned("EFS", "SnapshotDelete", arn, a.err,
                                efsSnapshotDelete(a.err),
                                a.after # efsRecoveryPoints)
            /\ UNCHANGED <<ebsVolumes, ebsSnapshots, efsFileSystems>>
            /\ DeleteUnchanged

(***************************************************************************)
(* CopySpec: ebsStorage.SnapshotCopy.  The call validates the destination, *)
(* presigns the request in the source region when the regions differ,      *)
(* sends CopySnapshot and CreateTags to the destination region, waits for  *)
(* the copy to complete, describes it and returns it.                      *)
(***************************************************************************)

\* aws.Bool and &b: a pointer to a bool.
BoolPtr(b) == [ptr |-> b]

\* The volume ID EC2 reports for a snapshot made by CopySnapshot.
PlaceholderVolumeID == "vol-ffffffff"

\* A blockstorage.Volume as a snapshot refers to it.
SourceVolume == [Type |-> "EBS", ID |-> "vol-1", Az |-> "us-east-1a"]

\* The snapshots SnapshotCopy is asked to copy: as EC2 holds the source or
\* not (another region, the encryption flag set, another size), with the
\* volume known or not.
FromInputs ==
    [ID : {"snap-1"}, Region : Regions, Encrypted : BOOLEAN, Size : {1, 2},
     Volume : {Nil, SourceVolume},
     Tags : {<<>>, <<[Key |-> "app", Value |-> "db"]>>}]

\* The destinations it is asked to copy to.
ToInputs ==
    [ID : {"", "snap-9"}, Region : {""} \cup Regions, Encrypted : BOOLEAN]

\* The step of the call at which the environment fails it, if at any.
CopyFaults ==
    {"none", "newEC2Client", "newEC2Client(from)", "Presign", "CopySnapshot",
     "CreateTags"}

\* A loop over a tag list that keeps no tag.
KeyValueToMap_NoTags(kvs) == EmptyMap

\* The map a loop `tags[tag.Key] = tag.Value` builds from a tag list.
RECURSIVE KeyValueToMap(_)
KeyValueToMap(kvs) ==
    IF Len(kvs) = 0 THEN EmptyMap
    ELSE LET front == SubSeq(kvs, 1, Len(kvs) - 1)
             tag   == kvs[Len(kvs)]
         IN  (tag.Key :> tag.Value) @@ KeyValueToMap(front)

\* ktags.GetTags: the given tags and the standard tags kanister adds.
GetTags(tags) == tags @@ ("kanister.io/version" :> "dev")

\* The tag list of an EC2 resource, in the order EC2 gives it.
MapToKeyValue(tags) ==
    LET order == CHOOSE o \in Orders(DOMAIN tags) : TRUE
    IN  [i \in 1..Len(order) |-> [Key |-> order[i], Value |-> tags[order[i]]]]

\* SnapshotCopy that takes any destination.
copyValidate_NoCheck(to) == NoErr

\* SnapshotCopy, the checks of the destination: its region is given and its
\* ID is empty.
copyValidate(to) ==
    IF to.Region = ""
    THEN "Destination snapshot AvailabilityZone must be specified"
    ELSE IF to.ID # ""
    THEN "Snapshot destination ID must be empty"
    ELSE NoErr

\* SnapshotCopy that presigns whenever the snapshot is encrypted.
needsPresign_WhenEncrypted(from, to) == from.Encrypted

\* SnapshotCopy, the condition under which the request is presigned.
needsPresign(from, to) == to.Region # from.Region

\* SnapshotCopy, the request that is presigned by the source region's client.
presignInput(from, to) ==
    [SourceSnapshotId |-> from.ID, SourceRegion |-> from.Region,
     DestinationRegion |-> to.Region]

\* The URL Presign makes of a request of a client bound to region.
PresignedURL(region, input) == [presignedBy |-> region, request |-> input]

\* SnapshotCopy that passes the source's encryption flag on as it is.
copySnapshotInput_PassesFlag(from, to, presignedURL) ==
    [Description       |-> "Copy of " \o from.ID,
     SourceSnapshotId  |-> from.ID,
     SourceRegion      |-> from.Region,
     DestinationRegion |-> to.Region,
     Encrypted         |-> BoolPtr(from.Encrypted),
     PresignedUrl      |-> presignedURL]

\* SnapshotCopy, the CopySnapshotInput it sends: Encrypted is set only for
\* an encrypted source.
copySnapshotInput(from, to, presignedURL) ==
    [Description       |-> "Copy of " \o from.ID,
     SourceSnapshotId  |-> from.ID,
     SourceRegion      |-> from.Region,
     DestinationRegion |-> to.Region,
     Encrypted         |-> IF from.Encrypted THEN BoolPtr(from.Encrypted)
                           ELSE Nil,
     PresignedUrl      |-> presignedURL]

\* EC2 CopySnapshot in the region of the client: a new snapshot, pending,
\* of the source snapshot's size and with a placeholder volume ID.
ec2CopySnapshot(snapshots, input, clientRegion, newID) ==
    LET src == snapshots[input.SourceSnapshotId]
    IN  IF ~src.exists \/ src.region # input.SourceRegion
        THEN [err |-> "InvalidSnapshot.NotFound", SnapshotId |-> "",
              after |-> snapshots]
        ELSE [err |-> NoErr, SnapshotId |-> newID,
              after |-> [snapshots EXCEPT ![newID] =
                  [exists |-> TRUE, region |-> clientRegion,
                   state |-> "pending", volumeId |-> PlaceholderVolumeID,
                   size |-> src.size,
                   encrypted |-> src.encrypted
                                   \/ input.Encrypted = BoolPtr(TRUE),
                   tags |-> EmptyMap]]]

\* EC2 CreateTags on a snapshot.
ec2CreateTags(snapshots, id, tags) ==
    [snapshots EXCEPT ![id].tags = tags @@ @]

\* EC2 DescribeSnapshots for one ID.
ec2DescribeSnapshots(snapshots, id) ==
    IF ~snapshots[id].exists
    THEN [err |-> "InvalidSnapshot.NotFound", Snapshots |-> <<>>]
    ELSE [err |-> NoErr,
          Snapshots |-> <<[SnapshotId |-> id,
                           State      |-> snapshots[id].state,
                           VolumeId   |-> snapshots[id].volumeId,
                           VolumeSize |-> snapshots[id].size,
                           Encrypted  |-> snapshots[id].encrypted,
                           Tags       |-> snapshots[id].tags]>>]

\* A request as the call has issued it: the API, the region of the client
\* that issued it, and its input.
Request(api, clientRegion, input) ==
    [api |-> api, client |-> clientRegion, input |-> input]

Failed(err)  == [kind |-> "error", err |-> err, snapshot |-> Nil]
Panicked     == [kind |-> "panic", err |-> "nil pointer dereference",
                 snapshot |-> Nil]
Succeeded(s) == [kind |-> "ok", err |-> NoErr, snapshot |-> s]

\* SnapshotCopy up to the wait: what it has requested, what EC2 holds
\* afterwards, and the error it returns if it does not get to wait.
snapshotCopyBegin(from, to, fault, snapshots, newID) ==
    LET invalid  == copyValidate(to)
        presign  == needsPresign(from, to)
        si       == presignInput(from, to)
        url      == IF presign THEN PresignedURL(from.Region, si) ELSE Nil
        csi      == copySnapshotInput(from, to, url)
        signed   == IF presign
                    THEN {Request("Presign", from.Region, si)} ELSE {}
        copied   == IF fault = "CopySnapshot"
                    THEN [err |-> "InternalError", SnapshotId |-> "",
                          after |-> snapshots]
                    ELSE ec2CopySnapshot(snapshots, csi, to.Region, newID)
        tags     == GetTags(KeyValueToMap(from.Tags))
        sent     == signed \cup {Request("CopySnapshot", to.Region, csi)}
        tagged   == sent \cup {Request("CreateTags", to.Region,
                                       [Resources |-> <<copied.SnapshotId>>,
                                        Tags |-> tags])}
        stop(err, requests, after) ==
            [err |-> err, reqs |-> requests, after |-> after, snapID |-> ""]
    IN  IF invalid # NoErr
        THEN stop(invalid, {}, snapshots)
        ELSE IF fault = "newEC2Client"
        THEN stop("Could not get EC2 client", {}, snapshots)
        ELSE IF presign /\ fault = "newEC2Client(from)"
        THEN stop("Could not create client to presign URL", {}, snapshots)
        ELSE IF presign /\ fault = "Presign"
        THEN stop("Could not presign URL", signed, snapshots)
        ELSE IF copied.err # NoErr
        THEN stop("Failed to copy snapshot", sent, copied.after)
        ELSE IF fault = "CreateTags"
        THEN stop("Failed to set tags", tagged, copied.after)
        ELSE [err |-> NoErr, reqs |-> tagged,
              after |-> ec2CreateTags(copied.after, copied.SnapshotId, tags),
              snapID |-> copied.SnapshotId]

\* The most sleeps of one wait that are followed.
MaxSleeps == 2

\* What a describe of a wait has observed: the error of the request, or
\* "missing" for an answer that does not hold exactly one resource, or the
\* state of the resource.
Observed(err, resources, state) ==
    IF err # NoErr THEN err
    ELSE IF Len(resources) # 1 THEN "missing"
    ELSE state

\* A request with a context: a cancelled context fails it before the backend
\* answers, a fault of the backend fails it, and otherwise the backend
\* answers.
WithContext(cancelled, fault, failed, answer) ==
    IF cancelled
    THEN [failed EXCEPT !.err = "RequestCanceled"]
    ELSE IF fault
    THEN failed
    ELSE answer

\* poll.WaitWithBackoff, what it does with the report (done, err) of the
\* function it polls: an error ends the wait at once, done ends it, and
\* otherwise it sleeps and calls the function again.
WaitWithBackoff(r) ==
    IF r.err # NoErr THEN "error"
    ELSE IF r.done THEN "done"
    ELSE "sleep"

\* A polled function that gives up on a snapshot that is not completed.
waitOnSnapshotIDCheck_GivesUp(dso) ==
    IF dso.err # NoErr
    THEN [done |-> FALSE, err |-> "Failed to describe snapshot"]
    ELSE IF Len(dso.Snapshots) # 1
    THEN [done |-> FALSE, err |-> "Object not found"]
    ELSE IF dso.Snapshots[1].State = "completed"
    THEN [done |-> TRUE, err |-> NoErr]
    ELSE [done |-> FALSE, err |-> "Snapshot EBS volume failed"]

\* The function waitOnSnapshotID polls with: done, or an error, or neither.
waitOnSnapshotIDCheck(dso) ==
    IF dso.err # NoErr
    THEN [done |-> FALSE, err |-> "Failed to describe snapshot"]
    ELSE IF Len(dso.Snapshots) # 1
    THEN [done |-> FALSE, err |-> "Object not found"]
    ELSE IF dso.Snapshots[1].State = "error"
    THEN [done |-> FALSE, err |-> "Snapshot EBS volume failed"]
    ELSE IF dso.Snapshots[1].State = "completed"
    THEN [done |-> TRUE, err |-> NoErr]
    ELSE [done |-> FALSE, err |-> NoErr]

\* getSnapshots for one ID.
getSnapshots(dso) ==
    IF dso.err # NoErr
    THEN [err |-> "Failed to get snapshot", Snapshots |-> Nil]
    ELSE IF Len(dso.Snapshots) # 1
    THEN [err |-> "Object not found", Snapshots |-> Nil]
    ELSE [err |-> NoErr, Snapshots |-> dso.Snapshots]

\* ebsStorage.snapshotParse: the blockstorage.Snapshot of an ec2.Snapshot,
\* in the region of the provider's client.
snapshotParse(snap, region) ==
    [ID        |-> snap.SnapshotId,
     Tags      |-> MapToKeyValue(snap.Tags),
     Type      |-> "EBS",
     Encrypted |-> snap.Encrypted,
     Size      |-> snap.VolumeSize,
     Region    |-> region,
     Volume    |-> [Type |-> "EBS", ID |-> snap.VolumeId, Az |-> ""]]

\* SnapshotCopy that returns the copy as EC2 describes it.
copyResult_AsDescribed(rs, from, to) ==
    IF from.Volume = Nil THEN Panicked ELSE Succeeded(rs)

\* SnapshotCopy, the end: the parsed copy gets the source's volume and size
\* and the destination's region.  A source without a volume is a nil pointer
\* that is dereferenced.
copyResult(rs, from, to) ==
    IF from.Volume = Nil
    THEN Panicked
    ELSE Succeeded([rs EXCEPT !.Volume = from.Volume,
                              !.Region = to.Region,
                              !.Size = from.Size])

CopyUnchanged ==
    UNCHANGED <<pureVars, ebsVolumes, efsFileSystems, efsRecoveryPoints,
                clientVars, deleteVars, lifecycle, efsVars, controllerVars>>

\* SnapshotCopy from the call to the wait, or to the error it returns before.
SnapshotCopyBegin ==
    /\ pc = "call"
    /\ \E fault \in CopyFaults :
       \E newID \in {id \in SnapIDs : ~ebsSnapshots[id].exists} :
          LET b == snapshotCopyBegin(op.from, op.to, fault, ebsSnapshots,
                                     newID)
          IN  /\ ebsSnapshots' = b.after
              /\ reqs' = b.reqs
              /\ op' = [op EXCEPT !.snapID = b.snapID]
              /\ IF b.err # NoErr
                 THEN pc' = "done" /\ out' = Failed(b.err)
                 ELSE pc' = "wait" /\ out' = out
    /\ UNCHANGED <<ctxDone, waitVars>>
    /\ CopyUnchanged

\* A call that returns a nil error and nothing else.
Completed == [kind |-> "ok", err |-> NoErr, snapshot |-> Nil]

\* One round of poll.WaitWithBackoff in waitOnSnapshotID(snapID) of a client
\* of region.  Either the poller sleeps and the cancelled context wakes it:
\* the wait ends with an error.  Or the snapshot is described: an error ends
\* the wait with an error, a completed snapshot ends it and the caller goes
\* on at next, anything else is slept on.  The caller returns onErr after an
\* error of the wait, and has returned onDone after the wait is done.
PollSnapshot(snapID, region, fault, wake, next, onErr, onDone) ==
    IF wake = "ctx.Done"
    THEN /\ ctxDone
         /\ sleeps > 0
         /\ pc' = "done"
         /\ out' = onErr
         /\ UNCHANGED <<reqs, sleeps, seen>>
    ELSE LET dso == WithContext(ctxDone, fault = "DescribeSnapshots",
                                [err |-> "InternalError", Snapshots |-> <<>>],
                                ec2DescribeSnapshots(ebsSnapshots, snapID))
             r   == waitOnSnapshotIDCheck(dso)
             w   == WaitWithBackoff(r)
         IN  /\ reqs' = reqs \cup {Request("DescribeSnapshots", region,
                                            [SnapshotIds |-> <<snapID>>])}
             /\ seen' = Append(seen,
                               Observed(dso.err, dso.Snapshots,
                                        IF Len(dso.Snapshots) = 1
                                        THEN dso.Snapshots[1].State
                                        ELSE ""))
             /\ CASE w = "error" ->
                       /\ pc' = "done"
                       /\ out' = onErr
                       /\ sleeps' = sleeps
                  [] w = "done" ->
                       /\ pc' = next
                       /\ out' = onDone
                       /\ sleeps' = sleeps
                  [] w = "sleep" ->
                       /\ sleeps < MaxSleeps
                       /\ pc' = pc
                       /\ out' = out
                       /\ sleeps' = sleeps + 1

\* SnapshotCopy waits for the copy to complete.
WaitOnSnapshotID ==
    /\ pc = "wait"
    /\ \E fault \in {"none", "DescribeSnapshots"},
          wake \in {"timer", "ctx.Done"} :
          PollSnapshot(op.snapID, op.to.Region, fault, wake, "get",
                       Failed("Snapshot did not complete"), out)
    /\ UNCHANGED <<op, ctxDone, ebsSnapshots>>
    /\ CopyUnchanged

\* SnapshotCopy after the wait: the copy is described once more, parsed, and
\* returned with the source's volume and size and the destination's region.
SnapshotCopyReturn ==
    /\ pc = "get"
    /\ \E fault \in {"none", "DescribeSnapshots"} :
          LET dso   == IF fault = "DescribeSnapshots"
                       THEN [err |-> "InternalError", Snapshots |-> <<>>]
                       ELSE ec2DescribeSnapshots(ebsSnapshots, op.snapID)
              snaps == getSnapshots(dso)
          IN  /\ reqs' = reqs \cup {Request("DescribeSnapshots", op.to.Region,
                                            [SnapshotIds |-> <<op.snapID>>])}
              /\ out' = IF snaps.err # NoErr
                        THEN Failed(snaps.err)
                        ELSE copyResult(
                                 snapshotParse(snaps.Snapshots[1],
                                               providerRegion),
                                 op.from, op.to)
    /\ pc' = "done"
    /\ UNCHANGED <<op, ctxDone, ebsSnapshots, waitVars>>
    /\ CopyUnchanged

\* EC2 finishes a pending copy, or fails it.
SnapshotProgress ==
    /\ \E id \in SnapIDs, state \in {"completed", "error"} :
          /\ ebsSnapshots[id].exists
          /\ ebsSnapshots[id].state = "pending"
          /\ ebsSnapshots' = [ebsSnapshots EXCEPT ![id].state = state]
    /\ UNCHANGED <<copyVars, waitVars>>
    /\ CopyUnchanged

\* The places of a call at which it waits for a resource.
WaitPCs == {"wait", "waitOnVolume", "waitOnSnapshotID",
            "waitUntilFileSystemAvailable"}

\* The caller cancels the context of the call while it waits.
CtxCancel ==
    /\ pc \in WaitPCs
    /\ ~ctxDone
    /\ ctxDone' = TRUE
    /\ UNCHANGED <<pc, op, reqs, out, ebsSnapshots, waitVars>>
    /\ CopyUnchanged

(***************************************************************************)
(* WaitSpec: the calls that wait for a resource.  ebsStorage.VolumeCreate  *)
(* and VolumeCreateFromSnapshot send CreateVolume, wait in waitOnVolume    *)
(* and return what VolumeGet finds; SnapshotCreateWaitForCompletion and    *)
(* SnapshotCopy wait in waitOnSnapshotID; efs.VolumeCreate sends           *)
(* CreateFileSystem, waits for the file system and returns what VolumeGet  *)
(* finds.                                                                  *)
(***************************************************************************)

\* aws.Int64: a pointer to an integer.
Int64Ptr(n) == [ptr |-> n]

\* ec2.VolumeTypeIo1
VolumeTypeIo1 == "io1"

\* A nil list of tags, told apart from the empty list.
NilTags == <<Nil>>

\* The tags a range over a tag list yields: none for a nil list.
TagList(tags) == IF tags = NilTags THEN <<>> ELSE tags

\* The volumes VolumeCreate is asked to create, and the volumes a snapshot
\* refers to: with a zone, a type and an IOPS value or without.
VolumeInputs ==
    [ID : {"", "vol-1"}, Az : {"", "us-east-1a"},
     VolumeType : {"", "gp2", VolumeTypeIo1}, Iops : {0, 100},
     Encrypted : {FALSE}, Size : {1},
     Tags : {NilTags, <<>>, <<[Key |-> "app", Value |-> "db"]>>}]

\* The snapshots VolumeCreateFromSnapshot is asked to restore.
SnapshotInputs ==
    [ID : {"snap-1"}, Region : {"us-east-1"},
     Volume : {Nil} \cup {v \in VolumeInputs : v.ID = "vol-1"}]

\* The tags VolumeCreateFromSnapshot is called with.
CallerTagInputs == {EmptyMap, "app" :> "web"}

\* The volume EC2 holds before the call.
ExistingVolume ==
    [AvailabilityZone |-> "us-east-1a", VolumeType |-> "gp2", Iops |-> Nil]

\* The CreateVolumeInput that has the IOPS value of the volume whatever its
\* type is.
volumeCreateInput_AlwaysIops(volume) ==
    [AvailabilityZone |-> volume.Az,
     VolumeType       |-> volume.VolumeType,
     Encrypted        |-> volume.Encrypted,
     Size             |-> volume.Size,
     SnapshotId       |-> Nil,
     Iops             |-> Int64Ptr(volume.Iops)]

\* VolumeCreate, the CreateVolumeInput: it has Iops only for type io1.
volumeCreateInput(volume) ==
    [AvailabilityZone |-> volume.Az,
     VolumeType       |-> volume.VolumeType,
     Encrypted        |-> volume.Encrypted,
     Size             |-> volume.Size,
     SnapshotId       |-> Nil,
     Iops             |-> IF volume.VolumeType = VolumeTypeIo1
                          THEN Int64Ptr(volume.Iops) ELSE Nil]

\* VolumeCreateFromSnapshot, the CreateVolumeInput for the zone chosen.
volumeFromSnapshotInput(snapshot, zone) ==
    [AvailabilityZone |-> zone,
     VolumeType       |-> snapshot.Volume.VolumeType,
     Encrypted        |-> Nil,
     Size             |-> Nil,
     SnapshotId       |-> snapshot.ID,
     Iops             |-> IF snapshot.Volume.VolumeType = VolumeTypeIo1
                          THEN Int64Ptr(snapshot.Volume.Iops) ELSE Nil]

\* The checks of the snapshot that let a volume without a list of tags pass.
fromSnapshotValidate_IgnoresTags(snapshot) ==
    IF snapshot.Volume = Nil
    THEN "Snapshot volume information not available"
    ELSE IF snapshot.Volume.VolumeType = "" \/ snapshot.Volume.Az = ""
    THEN "Required volume fields not available"
    ELSE NoErr

\* VolumeCreateFromSnapshot, the checks of the snapshot: the volume it was
\* taken of is known, with its type, its zone and its tags.
fromSnapshotValidate(snapshot) ==
    IF snapshot.Volume = Nil
    THEN "Snapshot volume information not available"
    ELSE IF \/ snapshot.Volume.VolumeType = ""
            \/ snapshot.Volume.Az = ""
            \/ snapshot.Volume.Tags = NilTags
    THEN "Required volume fields not available"
    ELSE NoErr

\* zone.FromSourceRegionZone: the zones of the provider's region a volume of
\* the source zone may be restored to, or an error.
FromSourceRegionZone(sourceRegion, sourceZone) ==
    {[zones |-> <<sourceZone>>, err |-> NoErr],
     [zones |-> <<sourceZone, sourceRegion \o "b">>, err |-> NoErr],
     [zones |-> <<>>, err |-> NoErr],
     [zones |-> <<>>, err |-> "cannot determine zones"]}

\* The tags of the call overwritten by the tags of the snapshot's volume.
RECURSIVE incorporateTags_SourceWins(_, _)
incorporateTags_SourceWins(tags, kvs) ==
    IF Len(kvs) = 0 THEN tags
    ELSE incorporateTags_SourceWins(
             (Head(kvs).Key :> Head(kvs).Value) @@ tags, Tail(kvs))

\* VolumeCreateFromSnapshot, the tags: the tags of the call, and those tags
\* of the snapshot's volume whose key the call does not give.
RECURSIVE incorporateTags(_, _)
incorporateTags(tags, kvs) ==
    IF Len(kvs) = 0 THEN tags
    ELSE incorporateTags(
             IF Head(kvs).Key \in DOMAIN tags
             THEN tags
             ELSE tags @@ (Head(kvs).Key :> Head(kvs).Value),
             Tail(kvs))

\* EC2 CreateVolume: a request without a zone is refused, a dry-run request
\* is answered with DryRunOperation and creates nothing, and any other one
\* creates the volume newID.
ec2CreateVolume(cvi, newID) ==
    IF cvi.AvailabilityZone = ""
    THEN [err |-> "MissingParameter", VolumeId |-> ""]
    ELSE IF cvi.DryRun
    THEN [err |-> "DryRunOperation", VolumeId |-> ""]
    ELSE [err |-> NoErr, VolumeId |-> newID]

\* EC2 DescribeVolumes for one ID.  created is the request the volume of
\* this call was created with, if it was.
ec2DescribeVolumes(volumes, states, id, created) ==
    IF id \notin volumes
    THEN [err |-> "InvalidVolume.NotFound", Volumes |-> <<>>]
    ELSE LET attrs == IF created # Nil /\ created.VolumeId = id
                      THEN created.input
                      ELSE ExistingVolume
         IN  [err |-> NoErr,
              Volumes |-> <<[VolumeId         |-> id,
                             State            |-> states[id],
                             AvailabilityZone |-> attrs.AvailabilityZone,
                             VolumeType       |-> attrs.VolumeType,
                             Iops             |-> attrs.Iops]>>]

\* createVolume, what it does with the answer to CreateVolume: after the
\* dry-run answer it returns no ID and no error, after any other error it
\* returns the error, and otherwise it waits for the volume.
createVolumeAnswer(err) ==
    IF isDryRunErr(err) THEN "dry run"
    ELSE IF err # NoErr THEN "error"
    ELSE "wait"

\* createVolume up to the wait: the tags and the DryRun flag of the client
\* are set on the input, and CreateVolume is sent.
createVolumeBegin(cvi, tags, dry, fault, newID) ==
    LET input  == cvi @@ [TagSpecifications |-> tags, DryRun |-> dry]
        answer == IF fault = "CreateVolume"
                  THEN [err |-> "InternalError", VolumeId |-> ""]
                  ELSE ec2CreateVolume(input, newID)
    IN  [request |-> Request("CreateVolume", providerRegion, input),
         input   |-> input,
         err     |-> answer.err,
         volID   |-> answer.VolumeId,
         then    |-> createVolumeAnswer(answer.err)]

\* waitOnVolume that takes a volume in state error for one still in creation.
waitOnVolumeCheck_ErrorIsPending(dvo) ==
    IF dvo.err # NoErr
    THEN [done |-> FALSE, err |-> dvo.err]
    ELSE IF Len(dvo.Volumes) # 1
    THEN [done |-> FALSE, err |-> "Object not found"]
    ELSE IF dvo.Volumes[1].State = "available"
    THEN [done |-> TRUE, err |-> NoErr]
    ELSE [done |-> FALSE, err |-> NoErr]

\* waitOnVolume that returns as soon as a describe succeeds.
waitOnVolumeCheck_AnyState(dvo) ==
    IF dvo.err # NoErr
    THEN [done |-> FALSE, err |-> dvo.err]
    ELSE IF Len(dvo.Volumes) # 1
    THEN [done |-> FALSE, err |-> "Object not found"]
    ELSE IF dvo.Volumes[1].State = "error"
    THEN [done |-> FALSE, err |-> "Creating EBS volume failed"]
    ELSE [done |-> TRUE, err |-> NoErr]

\* waitOnVolume, the body of its loop after the describe: it returns the
\* error of the describe, an error for an answer without exactly one volume
\* and for a volume in state error, nil for an available volume, and sleeps
\* otherwise.
waitOnVolumeCheck(dvo) ==
    IF dvo.err # NoErr
    THEN [done |-> FALSE, err |-> dvo.err]
    ELSE IF Len(dvo.Volumes) # 1
    THEN [done |-> FALSE, err |-> "Object not found"]
    ELSE IF dvo.Volumes[1].State = "error"
    THEN [done |-> FALSE, err |-> "Creating EBS volume failed"]
    ELSE IF dvo.Volumes[1].State = "available"
    THEN [done |-> TRUE, err |-> NoErr]
    ELSE [done |-> FALSE, err |-> NoErr]

\* ebsStorage.volumeParse: the blockstorage.Volume of an ec2.Volume.
volumeParse(vol) ==
    [Type       |-> "EBS",
     ID         |-> vol.VolumeId,
     Az         |-> vol.AvailabilityZone,
     VolumeType |-> vol.VolumeType,
     Iops       |-> IF vol.Iops = Nil THEN 0 ELSE vol.Iops.ptr]

FailedVolume(err)  == [kind |-> "error", err |-> err, volume |-> Nil]
ReturnedVolume(v)  == [kind |-> "ok", err |-> NoErr, volume |-> v]

\* ebsStorage.VolumeGet, after DescribeVolumesWithContext has answered dvo
\* to the request for the one ID: an answer that does not hold one volume is
\* an error.
ebsVolumeGet(dvo, id) ==
    IF dvo.err # NoErr
    THEN FailedVolume(dvo.err)
    ELSE IF Len(dvo.Volumes) # 1
    THEN FailedVolume("Object not found")
    ELSE IF Len(dvo.Volumes) = 0
    THEN FailedVolume("Volume with volume_id: " \o id \o " not found")
    ELSE IF Len(dvo.Volumes) > 1
    THEN FailedVolume("Found an unexpected number of volumes")
    ELSE ReturnedVolume(volumeParse(dvo.Volumes[1]))

WaitUnchanged ==
    UNCHANGED <<pureVars, efsRecoveryPoints, clientVars, deleteVars,
                efsVars, controllerVars>>

\* createVolume from CreateVolume to the wait, or to what it returns before:
\* after the dry-run answer the caller goes on to VolumeGet with an empty ID.
CreateVolume(cvi, tags, fault, newID) ==
    LET b == createVolumeBegin(cvi, tags, dryRun, fault, newID)
    IN  /\ reqs' = reqs \cup {b.request}
        /\ CASE b.then = "dry run" ->
                  /\ pc' = "VolumeGet"
                  /\ op' = [op EXCEPT !.volID = "", !.answer = b.err]
                  /\ out' = out
                  /\ UNCHANGED <<ebsVolumes, lifecycle>>
             [] b.then = "error" ->
                  /\ pc' = "done"
                  /\ out' = FailedVolume(b.err)
                  /\ op' = [op EXCEPT !.answer = b.err]
                  /\ UNCHANGED <<ebsVolumes, lifecycle>>
             [] b.then = "wait" ->
                  /\ pc' = "waitOnVolume"
                  /\ op' = [op EXCEPT !.volID = b.volID,
                                      !.answer = b.err,
                                      !.created = [VolumeId |-> b.volID,
                                                   input |-> b.input]]
                  /\ out' = out
                  /\ ebsVolumes' = ebsVolumes \cup {b.volID}
                  /\ lifecycle' = [lifecycle EXCEPT ![b.volID] = "creating"]

\* ebsStorage.VolumeCreate up to the wait.
EbsVolumeCreate ==
    /\ pc = "VolumeCreate"
    /\ \E fault \in {"none", "CreateVolume"}, newID \in VolIDs \ ebsVolumes :
          CreateVolume(volumeCreateInput(op.volume),
                       GetTags(KeyValueToMap(TagList(op.volume.Tags))),
                       fault, newID)
    /\ UNCHANGED <<ctxDone, ebsSnapshots, efsFileSystems, waitVars>>
    /\ WaitUnchanged

\* ebsStorage.VolumeCreateFromSnapshot up to the wait.
EbsVolumeCreateFromSnapshot ==
    /\ pc = "VolumeCreateFromSnapshot"
    /\ LET invalid == fromSnapshotValidate(op.snapshot)
           stop(err) ==
               /\ pc' = "done"
               /\ out' = FailedVolume(err)
               /\ UNCHANGED <<op, reqs, ebsVolumes, lifecycle>>
       IN  IF invalid # NoErr
           THEN stop(invalid)
           ELSE \E z \in FromSourceRegionZone(op.snapshot.Region,
                                              op.snapshot.Volume.Az) :
                   IF z.err # NoErr
                   THEN stop(z.err)
                   ELSE IF Len(z.zones) # 1
                   THEN stop("Length of zone slice should be 1")
                   ELSE \E fault \in {"none", "CreateVolume"},
                           newID \in VolIDs \ ebsVolumes :
                           CreateVolume(
                               volumeFromSnapshotInput(op.snapshot,
                                                       z.zones[1]),
                               GetTags(incorporateTags(
                                           op.tags,
                                           TagList(op.snapshot.Volume.Tags))),
                               fault, newID)
    /\ UNCHANGED <<ctxDone, ebsSnapshots, efsFileSystems, waitVars>>
    /\ WaitUnchanged

\* One turn of the loop of waitOnVolume: the volume is described; an error,
\* an answer without the volume and a volume in state error end the wait
\* with an error, an available volume ends it, anything else is slept on.
WaitOnVolume ==
    /\ pc = "waitOnVolume"
    /\ \E fault \in {"none", "DescribeVolumes", "empty"} :
          LET dvo == WithContext(
                         ctxDone, fault = "DescribeVolumes",
                         [err |-> "InternalError", Volumes |-> <<>>],
                         IF fault = "empty"
                         THEN [err |-> NoErr, Volumes |-> <<>>]
                         ELSE ec2DescribeVolumes(ebsVolumes, lifecycle,
                                                 op.volID, op.created))
              r   == waitOnVolumeCheck(dvo)
          IN  /\ reqs' = reqs \cup {Request("DescribeVolumes", providerRegion,
                                            [VolumeIds |-> <<op.volID>>])}
              /\ seen' = Append(seen,
                                Observed(dvo.err, dvo.Volumes,
                                         IF Len(dvo.Volumes) = 1
                                         THEN dvo.Volumes[1].State ELSE ""))
              /\ IF r.err # NoErr
                 THEN /\ pc' = "done"
                      /\ out' = FailedVolume(r.err)
                      /\ sleeps' = sleeps
                 ELSE IF r.done
                 THEN /\ pc' = "VolumeGet"
                      /\ out' = out
                      /\ sleeps' = sleeps
                 ELSE /\ sleeps < MaxSleeps
                      /\ pc' = pc
                      /\ out' = out
                      /\ sleeps' = sleeps + 1
    /\ UNCHANGED <<op, ctxDone, ebsVolumes, ebsSnapshots, efsFileSystems,
                   lifecycle>>
    /\ WaitUnchanged

\* ebsStorage.VolumeGet of the ID createVolume has returned.
EbsVolumeGet ==
    /\ pc = "VolumeGet"
    /\ \E fault \in {"none", "DescribeVolumes"} :
          LET dvo == WithContext(
                         ctxDone, fault = "DescribeVolumes",
                         [err |-> "InternalError", Volumes |-> <<>>],
                         ec2DescribeVolumes(ebsVolumes, lifecycle,
                                            op.volID, op.created))
          IN  /\ reqs' = reqs \cup {Request("DescribeVolumes", providerRegion,
                                            [VolumeIds |-> <<op.volID>>])}
              /\ out' = ebsVolumeGet(dvo, op.volID)
    /\ pc' = "done"
    /\ UNCHANGED <<op, ctxDone, ebsVolumes, ebsSnapshots, efsFileSystems,
                   lifecycle, waitVars>>
    /\ WaitUnchanged

\* SnapshotCreateWaitForCompletion that returns an error of the wait as nil.
snapshotCreateWaitResult_Swallowed(err) == Completed

\* SnapshotCreateWaitForCompletion, what it returns after the wait has
\* returned err.
snapshotCreateWaitResult(err) ==
    IF err # NoErr THEN Failed("Waiting on snapshot") ELSE Completed

\* ebsStorage.SnapshotCreateWaitForCompletion: a client in dry-run mode
\* returns at once, any other waits for the snapshot.
SnapshotCreateWaitForCompletion ==
    /\ pc = "SnapshotCreateWaitForCompletion"
    /\ IF dryRun
       THEN pc' = "done" /\ out' = Completed
       ELSE pc' = "waitOnSnapshotID" /\ out' = out
    /\ UNCHANGED <<op, reqs, ctxDone, backendVars, lifecycle, waitVars>>
    /\ UNCHANGED <<pureVars, clientVars, deleteVars, efsVars,
                   controllerVars>>

\* One round of waitOnSnapshotID in SnapshotCreateWaitForCompletion.
SnapshotCreateWait ==
    /\ pc = "waitOnSnapshotID"
    /\ \E fault \in {"none", "DescribeSnapshots"},
          wake \in {"timer", "ctx.Done"} :
          PollSnapshot(op.snap.ID, providerRegion, fault, wake, "done",
                       snapshotCreateWaitResult("wait failed"),
                       snapshotCreateWaitResult(NoErr))
    /\ UNCHANGED <<op, ctxDone, ebsSnapshots>>
    /\ CopyUnchanged

\* EC2 finishes the creation of a volume, or fails it.
VolumeProgress ==
    /\ \E id \in ebsVolumes, state \in {"available", "error"} :
          /\ lifecycle[id] = "creating"
          /\ lifecycle' = [lifecycle EXCEPT ![id] = state]
    /\ UNCHANGED <<copyVars, waitVars, backendVars>>
    /\ UNCHANGED <<pureVars, clientVars, deleteVars, efsVars,
                   controllerVars>>

\* filterAvailable: the file systems of a list that are available.
filterAvailable(fileSystems) ==
    SelectSeq(fileSystems, LAMBDA fs : fs.LifeCycleState = "available")

\* volumeFromEFSDescription: the blockstorage.Volume of a file system.
volumeFromEFSDescription(desc, zone) ==
    [Type |-> "EFS", ID |-> desc.FileSystemId, Az |-> zone]

\* efs.getFileSystemDescriptionWithID, after DescribeFileSystemsWithContext
\* has answered descs: when one file system of the answer is available, the
\* first file system of the answer is returned.
getFileSystemDescriptionWithID(descs) ==
    LET availables == IF descs.err # NoErr THEN <<>>
                      ELSE filterAvailable(descs.FileSystems)
    IN  IF descs.err # NoErr
        THEN [desc |-> Nil, err |-> "Failed to get filesystem description"]
        ELSE IF Len(availables) = 0
        THEN [desc |-> Nil, err |-> "Failed to find volume"]
        ELSE IF Len(availables) = 1
        THEN [desc |-> descs.FileSystems[1], err |-> NoErr]
        ELSE [desc |-> Nil, err |-> "multiple filesystems with same ID"]

\* efs.VolumeGet, after the describe has answered descs.
efsVolumeGet(descs, zone) ==
    LET d == getFileSystemDescriptionWithID(descs)
    IN  IF d.err # NoErr
        THEN FailedVolume("Failed to get EFS volume")
        ELSE ReturnedVolume(volumeFromEFSDescription(d.desc, zone))

\* EFS DescribeFileSystems for one ID.
efsDescribeFileSystems(fileSystems, states, id) ==
    IF id \notin fileSystems
    THEN [err |-> "FileSystemNotFound", FileSystems |-> <<>>]
    ELSE [err |-> NoErr,
          FileSystems |-> <<[FileSystemId |-> id,
                             LifeCycleState |-> states[id]]>>]

\* The volumes efs.VolumeCreate is asked to create.
EfsVolumeInputs ==
    [ID : {"", "fs-1"}, Az : {""},
     Tags : {<<>>, <<[Key |-> "app", Value |-> "db"]>>}]

\* efs.VolumeCreate, the ID it calls VolumeGet with after the file system fd
\* it has created is available: the ID of the volume it was called with.
createdFileSystemID(volume, fd) == volume.ID

\* efs.VolumeCreate up to the wait: CreateFileSystem is sent with a new
\* creation token and the tags of the volume.
EfsVolumeCreate ==
    /\ pc = "EfsVolumeCreate"
    /\ \E fault \in {"none", "CreateFileSystem"},
          newID \in FsIDs \ efsFileSystems :
          LET req == [CreationToken   |-> "uuid.NewV4()",
                      PerformanceMode |-> "generalPurpose",
                      ThroughputMode  |-> "bursting",
                      Tags |-> KeyValueToMap(TagList(op.volume.Tags))]
          IN  /\ reqs' = {Request("CreateFileSystem", providerRegion, req)}
              /\ IF fault = "CreateFileSystem"
                 THEN /\ pc' = "done"
                      /\ out' = FailedVolume("Failed to create EFS instance")
                      /\ UNCHANGED <<op, efsFileSystems, lifecycle>>
                 ELSE /\ pc' = "waitUntilFileSystemAvailable"
                      /\ out' = out
                      /\ op' = [op EXCEPT
                                   !.created = [FileSystemId |-> newID]]
                      /\ efsFileSystems' = efsFileSystems \cup {newID}
                      /\ lifecycle' = [lifecycle EXCEPT ![newID] = "creating"]
    /\ UNCHANGED <<ctxDone, ebsVolumes, ebsSnapshots, waitVars>>
    /\ WaitUnchanged

\* waitUntilFileSystemAvailable: the file system is polled until it is
\* available.
WaitUntilFileSystemAvailable ==
    /\ pc = "waitUntilFileSystemAvailable"
    /\ \E fault \in {"none", "DescribeFileSystems"},
          wake \in {"timer", "ctx.Done"} :
          IF wake = "ctx.Done"
          THEN /\ ctxDone
               /\ sleeps > 0
               /\ pc' = "done"
               /\ out' = FailedVolume("EFS instance is not available")
               /\ UNCHANGED <<reqs, sleeps, seen>>
          ELSE LET descs == WithContext(
                                ctxDone, fault = "DescribeFileSystems",
                                [err |-> "InternalServerError",
                                 FileSystems |-> <<>>],
                                efsDescribeFileSystems(
                                    efsFileSystems, lifecycle,
                                    op.created.FileSystemId))
                   w == WaitWithBackoff(
                            [done |-> /\ descs.err = NoErr
                                      /\ Len(descs.FileSystems) = 1
                                      /\ descs.FileSystems[1].LifeCycleState
                                             = "available",
                             err  |-> descs.err])
               IN  /\ reqs' = reqs \cup
                          {Request("DescribeFileSystems", providerRegion,
                                   [FileSystemId |->
                                        op.created.FileSystemId])}
                   /\ seen' = Append(seen,
                                     Observed(descs.err, descs.FileSystems,
                                         IF Len(descs.FileSystems) = 1
                                         THEN descs.FileSystems[1]
                                                   .LifeCycleState
                                         ELSE ""))
                   /\ CASE w = "error" ->
                             /\ pc' = "done"
                             /\ out' = FailedVolume(
                                           "EFS instance is not available")
                             /\ sleeps' = sleeps
                        [] w = "done" ->
                             /\ pc' = "EfsVolumeGet"
                             /\ out' = out
                             /\ sleeps' = sleeps
                        [] w = "sleep" ->
                             /\ sleeps < MaxSleeps
                             /\ pc' = pc
                             /\ out' = out
                             /\ sleeps' = sleeps + 1
    /\ UNCHANGED <<op, ctxDone, ebsVolumes, ebsSnapshots, efsFileSystems,
                   lifecycle>>
    /\ WaitUnchanged

\* efs.VolumeCreate after the wait: VolumeGet, and what it finds is returned.
EfsVolumeGet ==
    /\ pc = "EfsVolumeGet"
    /\ \E fault \in {"none", "DescribeFileSystems"} :
          LET id    == createdFileSystemID(op.volume, op.created)
              descs == WithContext(
                           ctxDone, fault = "DescribeFileSystems",
                           [err |-> "InternalServerError",
                            FileSystems |-> <<>>],
                           efsDescribeFileSystems(efsFileSystems, lifecycle,
                                                  id))
              vol   == efsVolumeGet(descs, op.volume.Az)
          IN  /\ reqs' = reqs \cup
                     {Request("DescribeFileSystems", providerRegion,
                              [FileSystemId |-> id])}
              /\ out' = IF vol.kind = "ok"
                        THEN vol
                        ELSE FailedVolume(
                                 "Failed to get recently create EFS instance")
    /\ pc' = "done"
    /\ UNCHANGED <<op, ctxDone, ebsVolumes, ebsSnapshots, efsFileSystems,
                   lifecycle, waitVars>>
    /\ WaitUnchanged

\* EFS finishes the creation of a file system.
FileSystemProgress ==
    /\ \E id \in efsFileSystems :
          /\ lifecycle[id] = "creating"
          /\ lifecycle' = [lifecycle EXCEPT ![id] = "available"]
    /\ UNCHANGED <<copyVars, waitVars, backendVars>>
    /\ UNCHANGED <<pureVars, clientVars, deleteVars, efsVars,
                   controllerVars>>

(***************************************************************************)
(* VolumeGet of both providers, applied to the answers a describe may      *)
(* give (PureSpec).                                                        *)
(***************************************************************************)

\* The most resources in the answer to a describe.
MaxAnswerLen == 2

\* The sequences over set of length at most n.
RECURSIVE SeqsUpTo(_, _)
SeqsUpTo(set, n) ==
    IF n = 0 THEN {<<>>}
    ELSE LET shorter == SeqsUpTo(set, n - 1)
         IN  shorter \cup {Append(q, x) : q \in shorter, x \in set}

\* The answers of DescribeVolumes: an error, or volumes in any number.
DescribeVolumesAnswers ==
    {[err |-> e, Volumes |-> <<>>] :
        e \in {"InternalError", "InvalidVolume.NotFound"}}
    \cup
    {[err |-> NoErr, Volumes |-> vols] :
        vols \in SeqsUpTo([VolumeId : VolIDs,
                           State : {"creating", "available"},
                           AvailabilityZone : {"us-east-1a"},
                           VolumeType : {"gp2"},
                           Iops : {Nil}], MaxAnswerLen)}

\* The answers of DescribeFileSystems: an error, or file systems in any
\* number and any state of their life cycle.
DescribeFileSystemsAnswers ==
    {[err |-> e, FileSystems |-> <<>>] :
        e \in {"InternalServerError", "FileSystemNotFound"}}
    \cup
    {[err |-> NoErr, FileSystems |-> fss] :
        fss \in SeqsUpTo([FileSystemId : FsIDs,
                          LifeCycleState : {"creating", "available",
                                            "deleting"}], MaxAnswerLen)}

\* The calls of VolumeGet PureSpec starts from.
VolumeGetCallInputs ==
    {[op |-> "ebsStorage.VolumeGet", id |-> "vol-1", dvo |-> dvo] :
        dvo \in DescribeVolumesAnswers}
    \cup
    {[op |-> "efs.VolumeGet", id |-> "fs-1", descs |-> descs] :
        descs \in DescribeFileSystemsAnswers}

CallEbsVolumeGet ==
    /\ call.op = "ebsStorage.VolumeGet"
    /\ ret = NotReturned
    /\ ret' = ebsVolumeGet(call.dvo, call.id)
    /\ PureUnchanged

\* efs.VolumeGet; the description it has made the volume of is kept.
CallEfsVolumeGet ==
    /\ call.op = "efs.VolumeGet"
    /\ ret = NotReturned
    /\ ret' = [result |-> efsVolumeGet(call.descs, ""),
               desc   |-> getFileSystemDescriptionWithID(call.descs).desc]
    /\ PureUnchanged

(***************************************************************************)
(* Listing, tagging and describing resources: each call applied to its     *)
(* arguments and to the answers of the backend (PureSpec).  What a call    *)
(* returns is kept with the requests it has sent.                          *)
(***************************************************************************)

\* The tags VolumesList and SnapshotsList are asked to filter by.
ListTagInputs ==
    UNION {[keys -> {"db", "web"}] : keys \in SUBSET {"app", "env"}}

\* The answers of DescribeSnapshots: an error, or snapshots in any number,
\* each with the tags EC2 holds for it.
DescribeSnapshotsAnswers ==
    {[err |-> e, Snapshots |-> <<>>] :
        e \in {"InternalError", "InvalidSnapshot.NotFound"}}
    \cup
    {[err |-> NoErr, Snapshots |-> snaps] :
        snaps \in SeqsUpTo([SnapshotId : {"snap-1", "snap-2"},
                            State : {"completed"},
                            VolumeId : {"vol-1"},
                            VolumeSize : {1},
                            Encrypted : {FALSE},
                            Tags : {EmptyMap, "app" :> "db",
                                    ("app" :> "db") @@ ("env" :> "prod")}],
                           MaxAnswerLen)}

\* The filters VolumesList and SnapshotsList build in their loop over the
\* tags: one filter per tag.  Each filter holds the addresses of the loop's
\* variables k and v; the loop has one k and one v for all its turns (the
\* module is built as Go 1.12), so when the request is sent every filter
\* reads the tag the loop has yielded last.
tagFilters(tags, order) ==
    LET n == Len(order)
    IN  [i \in 1..n |-> [Name   |-> order[n],
                         Values |-> <<tags[order[n]]>>]]

\* The result of a call that lists resources.
FailedList(err)  == [kind |-> "error", err |-> err, list |-> <<>>]
ReturnedList(l)  == [kind |-> "ok", err |-> NoErr, list |-> l]

\* ebsStorage.VolumesList: one DescribeVolumes with the filters, and every
\* volume of the answer parsed.
ebsVolumesList(tags, order, dvo, region) ==
    [requests |-> <<Request("DescribeVolumes", region,
                            [Filters |-> tagFilters(tags, order)])>>,
     result   |-> IF dvo.err # NoErr
                  THEN FailedList(dvo.err)
                  ELSE ReturnedList([i \in 1..Len(dvo.Volumes) |->
                                        volumeParse(dvo.Volumes[i])])]

\* ebsStorage.SnapshotsList: one DescribeSnapshots with the filters, and
\* every snapshot of the answer parsed.
ebsSnapshotsList(tags, order, dso, region) ==
    [requests |-> <<Request("DescribeSnapshots", region,
                            [Filters |-> tagFilters(tags, order)])>>,
     result   |-> IF dso.err # NoErr
                  THEN FailedList(dso.err)
                  ELSE ReturnedList([i \in 1..Len(dso.Snapshots) |->
                                        snapshotParse(dso.Snapshots[i],
                                                      region)])]

\* The calls that list resources.
ListCallInputs ==
    UNION {{[op |-> "ebsStorage.VolumesList", tags |-> tags,
             order |-> order, dvo |-> dvo] :
               order \in Orders(DOMAIN tags), dvo \in DescribeVolumesAnswers} :
           tags \in ListTagInputs}
    \cup
    UNION {{[op |-> "ebsStorage.SnapshotsList", tags |-> tags,
             order |-> order, dso |-> dso] :
               order \in Orders(DOMAIN tags),
               dso \in DescribeSnapshotsAnswers} :
           tags \in ListTagInputs}

CallEbsVolumesList ==
    /\ call.op = "ebsStorage.VolumesList"
    /\ ret = NotReturned
    /\ ret' = ebsVolumesList(call.tags, call.order, call.dvo, providerRegion)
    /\ PureUnchanged

CallEbsSnapshotsList ==
    /\ call.op = "ebsStorage.SnapshotsList"
    /\ ret = NotReturned
    /\ ret' = ebsSnapshotsList(call.tags, call.order, call.dso,
                               providerRegion)
    /\ PureUnchanged

\* The tags VolumeCreateFromSnapshot is called with: a nil map, or a map.
MergeCallerTagInputs ==
    {Nil} \cup UNION {[keys -> {"1", "2"}] : keys \in SUBSET {"A", "B"}}

\* The tags of the volume a snapshot was taken of.
MergeSourceTagInputs ==
    SeqsUpTo([Key : {"B", "C"}, Value : {"3", "4"}], MaxAnswerLen)

\* ebsStorage.VolumeCreateFromSnapshot, the tags it gives to createVolume:
\* the tags of the snapshot's volume are put into the map of the call where
\* the key is not found, and the standard tags are added.  Putting a tag
\* into a nil map panics.
createVolumeTags(tags, kvs) ==
    IF tags = Nil
    THEN IF Len(kvs) = 0
         THEN [kind |-> "ok", tags |-> GetTags(EmptyMap)]
         ELSE [kind |-> "panic", tags |-> EmptyMap]
    ELSE [kind |-> "ok", tags |-> GetTags(incorporateTags(tags, kvs))]

\* The calls that merge tags.
MergeCallInputs ==
    {[op |-> "createVolumeTags", tags |-> tags, source |-> source] :
        tags \in MergeCallerTagInputs, source \in MergeSourceTagInputs}

CallCreateVolumeTags ==
    /\ call.op = "createVolumeTags"
    /\ ret = NotReturned
    /\ ret' = createVolumeTags(call.tags, call.source)
    /\ PureUnchanged

\* ebsStorage.VolumeCreateFromSnapshot, the map of tags of its caller after
\* the call: a map in Go is a reference, and the loop over the tags of the
\* snapshot's volume writes into the map the caller has passed.  A call that
\* fails before the loop does not get to write, and a nil map is not
\* written to: the first write panics.
callerTagsAfter(snapshot, tags, z) ==
    IF fromSnapshotValidate(snapshot) # NoErr
    THEN [kind |-> "error", tags |-> tags]
    ELSE IF z.err # NoErr \/ Len(z.zones) # 1
    THEN [kind |-> "error", tags |-> tags]
    ELSE IF tags = Nil
    THEN [kind |-> IF Len(TagList(snapshot.Volume.Tags)) = 0
                   THEN "ok" ELSE "panic",
          tags |-> Nil]
    ELSE [kind |-> "ok",
          tags |-> incorporateTags(tags, TagList(snapshot.Volume.Tags))]

\* The calls of VolumeCreateFromSnapshot whose caller looks at its map of
\* tags afterwards.
CallerTagsCallInputs ==
    {[op |-> "callerTagsAfter", snapshot |-> snapshot, tags |-> tags,
      z |-> z] :
        snapshot \in {s \in SnapshotInputs :
                         s.Volume = Nil \/ s.Volume.Iops = 0},
        tags \in {Nil, EmptyMap, "app" :> "web", "B" :> "1"},
        z \in FromSourceRegionZone("us-east-1", "us-east-1a")}

CallCallerTagsAfter ==
    /\ call.op = "callerTagsAfter"
    /\ ret = NotReturned
    /\ ret' = callerTagsAfter(call.snapshot, call.tags, call.z)
    /\ PureUnchanged


\* efs.VolumeCreateFromSnapshot up to StartRestoreJob: the restore metadata
\* and the tags of the recovery point are united, the mount-target tags are
\* taken out, the restore tags are added, and the result is the metadata of
\* the restore job.  The tags of the call are not read.
efsStartRestoreJob(snapshot, tags, restoreMeta, backupTags, order, region) ==
    LET m == restoreMetadata(Union(restoreMeta, backupTags), order)
    IN  IF m.err
        THEN [requests |-> <<>>,
              err |-> "Failed to get filtered tags and mount targets"]
        ELSE [requests |-> <<Request("StartRestoreJob", region,
                                     [Metadata         |-> m.metadata,
                                      RecoveryPointArn |-> snapshot.ID,
                                      ResourceType     |-> "EFS"])>>,
              err |-> NoErr]

\* The tags efs.VolumeCreateFromSnapshot is called with, the restore
\* metadata of the recovery point and the tags of the recovery point.
RestoreCallerTagInputs ==
    {EmptyMap, "app" :> "web", "team" :> "x"}
RestoreMetadataInputs == {EmptyMap, "app" :> "db"}
BackupTagInputs ==
    {EmptyMap, "env" :> "prod", mountTargetKey("fsmt-1") :> "a+b"}

\* The calls of efs.VolumeCreateFromSnapshot.
RestoreCallInputs ==
    UNION {{[op |-> "efs.VolumeCreateFromSnapshot",
             snapshot |-> [ID |-> "arn:rp-1"], tags |-> tags,
             restoreMeta |-> rm, backupTags |-> bt, order |-> order] :
               tags \in RestoreCallerTagInputs,
               order \in Orders(DOMAIN Union(rm, bt))} :
           rm \in RestoreMetadataInputs, bt \in BackupTagInputs}

CallEfsVolumeCreateFromSnapshot ==
    /\ call.op = "efs.VolumeCreateFromSnapshot"
    /\ ret = NotReturned
    /\ ret' = efsStartRestoreJob(call.snapshot, call.tags, call.restoreMeta,
                                 call.backupTags, call.order, providerRegion)
    /\ PureUnchanged

\* errors.Wrapf and errors.Wrap of github.com/pkg/errors: the error with a
\* message in front, and nil for a nil error.
Wrapf(err, message) == IF err = NoErr THEN NoErr ELSE message

\* The resources SetTags is called with: a volume, a snapshot, or a value of
\* another type.
ResourceInputs ==
    {[type |-> "*blockstorage.Volume", ID |-> "vol-1"],
     [type |-> "*blockstorage.Snapshot", ID |-> "snap-1"],
     [type |-> "string", ID |-> "vol-1"]}

\* setResourceTags: one CreateTags for the resource.
setResourceTags(resourceID, tags, answer, region) ==
    [requests |-> <<Request("CreateTags", region,
                            [Resources |-> <<resourceID>>, Tags |-> tags])>>,
     err      |-> Wrapf(answer, "Failed to set tags")]

\* ebsStorage.SetTags: the tags are set on a volume and on a snapshot; for
\* any other resource a nil error is wrapped and returned.
ebsSetTags(resource, tags, answer, region) ==
    IF resource.type \in {"*blockstorage.Volume", "*blockstorage.Snapshot"}
    THEN setResourceTags(resource.ID, tags, answer, region)
    ELSE [requests |-> <<>>, err |-> Wrapf(NoErr, "Unknown resource type")]

\* efs.SetTags: CreateTags of EFS for a volume, TagResource of AWS Backup
\* for a snapshot, and an error for any other resource.
efsSetTags(resource, tags, answer, region) ==
    CASE resource.type = "*blockstorage.Volume" ->
             [requests |-> <<Request("efs.CreateTags", region,
                                     [FileSystemId |-> resource.ID,
                                      Tags |-> tags])>>,
              err |-> answer]
      [] resource.type = "*blockstorage.Snapshot" ->
             [requests |-> <<Request("backup.TagResource", region,
                                     [ResourceArn |-> resource.ID,
                                      Tags |-> tags])>>,
              err |-> answer]
      [] OTHER ->
             [requests |-> <<>>,
              err |-> "Unsupported type for setting tags"]

\* The calls of SetTags, with the answer of the backend to a tagging
\* request.
SetTagsCallInputs ==
    {[op |-> "SetTags", backend |-> backend, resource |-> resource,
      tags |-> tags, answer |-> answer] :
        backend \in {"EBS", "EFS"}, resource \in ResourceInputs,
        tags \in {EmptyMap, "app" :> "db"},
        answer \in {NoErr, "InternalError"}}

CallSetTags ==
    /\ call.op = "SetTags"
    /\ ret = NotReturned
    /\ ret' = IF call.backend = "EBS"
              THEN ebsSetTags(call.resource, call.tags, call.answer,
                              providerRegion)
              ELSE efsSetTags(call.resource, call.tags, call.answer,
                              providerRegion)
    /\ PureUnchanged

\* The result of SnapshotRestoreTargets: global, the zones by region, and
\* the error.
NoTargets(err) == [global |-> FALSE, regionsAndZones |-> Nil, err |-> err]

\* SnapshotRestoreTargets that does not look at the snapshot's volume.
snapshotRestoreTargets_NoChecks(snapshot) ==
    LET zl == staticRegionToZones(snapshot.Region)
    IN  IF zl.err
        THEN NoTargets("cannot get availability zones for region")
        ELSE [global |-> FALSE,
              regionsAndZones |-> (snapshot.Region :> zl.zones),
              err |-> NoErr]

\* ebsStorage.SnapshotRestoreTargets: after the checks of
\* VolumeCreateFromSnapshot, the zones the static table has for the region
\* of the snapshot, under that region alone.
snapshotRestoreTargets(snapshot) ==
    IF snapshot.Volume = Nil
    THEN NoTargets("Snapshot volume information not available")
    ELSE IF \/ snapshot.Volume.VolumeType = ""
            \/ snapshot.Volume.Az = ""
            \/ snapshot.Volume.Tags = NilTags
    THEN NoTargets("Required volume fields not available")
    ELSE LET zl == staticRegionToZones(snapshot.Region)
         IN  IF zl.err
             THEN NoTargets("cannot get availability zones for region")
             ELSE [global |-> FALSE,
                   regionsAndZones |-> (snapshot.Region :> zl.zones),
                   err |-> NoErr]

\* The snapshots SnapshotRestoreTargets is asked about: of regions the
\* table lists and of others, with the volume's metadata or without.
RestoreTargetInputs ==
    [ID : {"snap-1"},
     Region : {"us-east-1", "ap-south-1", "eu-west-3", "", "cn-north-1",
               "us-east-1a"},
     Volume : {Nil} \cup {v \in VolumeInputs : v.ID = "vol-1" /\ v.Iops = 0}]

RestoreTargetCallInputs ==
    {[op |-> "SnapshotRestoreTargets", snapshot |-> snapshot] :
        snapshot \in RestoreTargetInputs}

CallSnapshotRestoreTargets ==
    /\ call.op = "SnapshotRestoreTargets"
    /\ ret = NotReturned
    /\ ret' = snapshotRestoreTargets(call.snapshot)
    /\ PureUnchanged

\* efs.SnapshotCopy: not implemented.
efsSnapshotCopy(from, to) ==
    [requests |-> <<>>, result |-> Failed("Not implemented")]

\* SnapshotsList that answers with an empty list.
efsSnapshotsList_EmptyList(tags) ==
    [requests |-> <<>>, result |-> ReturnedList(<<>>)]

\* efs.SnapshotsList: not implemented.
efsSnapshotsList(tags) ==
    [requests |-> <<>>, result |-> FailedList("Not implemented")]

\* The calls of the operations the EFS provider does not implement.
UnsupportedCallInputs ==
    {[op |-> "efs.SnapshotCopy", from |-> from, to |-> to] :
        from \in FromInputs, to \in ToInputs}
    \cup
    {[op |-> "efs.SnapshotsList", tags |-> tags] : tags \in ListTagInputs}

CallEfsSnapshotCopy ==
    /\ call.op = "efs.SnapshotCopy"
    /\ ret = NotReturned
    /\ ret' = efsSnapshotCopy(call.from, call.to)
    /\ PureUnchanged

CallEfsSnapshotsList ==
    /\ call.op = "efs.SnapshotsList"
    /\ ret = NotReturned
    /\ ret' = efsSnapshotsList(call.tags)
    /\ PureUnchanged

\* aws.String: a pointer to a string.
StringPtr(str) == [ptr |-> str]

\* What a call returns for a snapshot and an error, the error being nil or
\* not.
Result(snapshot, err) ==
    [kind |-> IF err = NoErr THEN "ok" ELSE "error", err |-> err,
     snapshot |-> snapshot]

\* efsIDFromResourceARN: the file-system ID at the end of the ARN of a file
\* system, or an error for another string.
efsIDFromResourceARN(arn) ==
    LET i == IndexOf(arn, "/")
    IN  IF HasPrefix(arn, "arn:") /\ i > 0 /\ i < Len(arn)
        THEN [id |-> SubSeq(arn, i + 1, Len(arn)), err |-> NoErr]
        ELSE [id |-> "", err |-> "Wrong format for the resource ARN"]

\* snapshotFromRecoveryPoint: the blockstorage.Snapshot of a recovery point
\* and its volume, or an error for a description that lacks a field.
snapshotFromRecoveryPoint(rp, volume, region) ==
    IF ~rp.complete
    THEN Failed("Recovery point description is incomplete")
    ELSE Succeeded([ID |-> rp.RecoveryPointArn, Type |-> "EFS",
                    Region |-> region, Volume |-> volume])

\* The answers of DescribeRecoveryPoint: an error, or a description with
\* the ARN of a file system, with another string, or with no resource ARN.
DescribeRecoveryPointAnswers ==
    {[err |-> "ResourceNotFoundException", RecoveryPointArn |-> "",
      ResourceArn |-> Nil, complete |-> FALSE]}
    \cup
    [err : {NoErr}, RecoveryPointArn : {"arn:rp-1"},
     ResourceArn : {Nil, StringPtr("arn:efs:file-system/fs-1"),
                    StringPtr("fs-1")},
     complete : BOOLEAN]

\* efs.SnapshotGet: the recovery point is described, the ID of its file
\* system is read from the resource ARN, the file system is got, and the
\* snapshot is made of both.  For a description without a resource ARN the
\* error of the describe, which is nil there, is wrapped and returned.
efsSnapshotGet(id, resp, descs, region) ==
    LET describe == Request("DescribeRecoveryPoint", region,
                            [BackupVaultName  |-> "k10vault",
                             RecoveryPointArn |-> id])
        volID    == efsIDFromResourceARN(resp.ResourceArn.ptr)
        vol      == efsVolumeGet(descs, "")
    IN  IF resp.err # NoErr
        THEN [requests |-> <<describe>>,
              result |-> Failed("Failed to get recovery point information")]
        ELSE IF resp.ResourceArn = Nil
        THEN [requests |-> <<describe>>,
              result |-> Result(Nil,
                             Wrapf(resp.err,
                                   "Resource ARN in recovery point is empty"))]
        ELSE IF volID.err # NoErr
        THEN [requests |-> <<describe>>,
              result |-> Failed(
                  "Failed to get volume ID from recovery point ARN")]
        ELSE [requests |-> <<describe,
                             Request("DescribeFileSystems", region,
                                     [FileSystemId |-> volID.id])>>,
              result |-> IF vol.kind # "ok"
                         THEN Failed("Failed to get originating volume")
                         ELSE snapshotFromRecoveryPoint(resp, vol.volume,
                                                        region)]

\* ebsStorage.SnapshotGet: the snapshot is described and parsed, tags
\* included, and then each tag of the described snapshot is appended to the
\* tags of the parsed one.
ebsSnapshotGet(id, dso, region) ==
    LET snaps == getSnapshots(dso)
        snap  == snaps.Snapshots[1]
        ms    == snapshotParse(snap, region)
    IN  [requests |-> <<Request("DescribeSnapshots", region,
                                [SnapshotIds |-> <<id>>])>>,
         snap     |-> IF snaps.err # NoErr THEN Nil ELSE snap,
         result   |-> IF snaps.err # NoErr
                      THEN Failed(snaps.err)
                      ELSE Succeeded([ms EXCEPT
                               !.Tags = @ \o MapToKeyValue(snap.Tags)])]

\* EC2 CreateSnapshot: the new snapshot with the tags of the request, and
\* for a dry-run request no snapshot and the dry-run answer.
ec2CreateSnapshot(csi, newID) ==
    IF csi.DryRun
    THEN [err |-> "DryRunOperation",
          snap |-> [SnapshotId |-> "", State |-> "", VolumeId |-> "",
                    VolumeSize |-> 0, Encrypted |-> FALSE,
                    Tags |-> EmptyMap]]
    ELSE [err |-> NoErr,
          snap |-> [SnapshotId |-> newID, State |-> "pending",
                    VolumeId |-> csi.VolumeId, VolumeSize |-> 1,
                    Encrypted |-> FALSE, Tags |-> csi.TagSpecifications]]

\* availabilityZoneToRegion, after DescribeAvailabilityZones has answered.
availabilityZoneToRegion(azo) ==
    IF azo.err # NoErr
    THEN [region |-> "", err |-> "Could not determine region"]
    ELSE IF Len(azo.AvailabilityZones) = 0
    THEN [region |-> "", err |-> "Region unavailable for availability zone"]
    ELSE [region |-> azo.AvailabilityZones[1].RegionName, err |-> NoErr]

\* The answers of DescribeAvailabilityZones.
DescribeAvailabilityZonesAnswers ==
    {[err |-> "InternalError", AvailabilityZones |-> <<>>],
     [err |-> NoErr, AvailabilityZones |-> <<>>],
     [err |-> NoErr, AvailabilityZones |-> <<[RegionName |-> "us-east-1"]>>]}

\* ebsStorage.SnapshotCreate: CreateSnapshot with the tags of the call and
\* the standard tags, the region of the volume's zone, and the snapshot
\* parsed, tags included, with each of its tags appended once more.
ebsSnapshotCreate(volume, tags, fault, azo, dry, region) ==
    LET csi    == [VolumeId |-> volume.ID,
                   TagSpecifications |-> GetTags(tags), DryRun |-> dry]
        answer == IF fault
                  THEN [err |-> "InternalError", snap |-> Nil]
                  ELSE ec2CreateSnapshot(csi, "snap-2")
        create == Request("CreateSnapshot", region, csi)
        zones  == Request("DescribeAvailabilityZones", region,
                          [ZoneNames |-> <<volume.Az>>])
        r      == availabilityZoneToRegion(azo)
        ms     == snapshotParse(answer.snap, region)
    IN  IF answer.err # NoErr /\ ~isDryRunErr(answer.err)
        THEN [requests |-> <<create>>, snap |-> Nil,
              result |-> Failed("Failed to create snapshot")]
        ELSE IF r.err # NoErr
        THEN [requests |-> <<create, zones>>, snap |-> answer.snap,
              result |-> Failed(r.err)]
        ELSE [requests |-> <<create, zones>>, snap |-> answer.snap,
              result |-> Succeeded(
                  [ms EXCEPT !.Region = r.region,
                             !.Tags = @ \o MapToKeyValue(answer.snap.Tags),
                             !.Volume = volume])]

\* The calls that get and create snapshots.
SnapshotCallInputs ==
    {[op |-> "efs.SnapshotGet", id |-> "arn:rp-1", resp |-> resp,
      descs |-> descs] :
        resp \in DescribeRecoveryPointAnswers,
        descs \in {d \in DescribeFileSystemsAnswers :
                      Len(d.FileSystems) <= 1}}
    \cup
    {[op |-> "ebsStorage.SnapshotGet", id |-> "snap-1", dso |-> dso] :
        dso \in DescribeSnapshotsAnswers}
    \cup
    {[op |-> "ebsStorage.SnapshotCreate", volume |-> SourceVolume,
      tags |-> tags, fault |-> fault, azo |-> azo, dry |-> dry] :
        tags \in {EmptyMap, "app" :> "db"}, fault \in BOOLEAN,
        azo \in DescribeAvailabilityZonesAnswers, dry \in BOOLEAN}

CallEfsSnapshotGet ==
    /\ call.op = "efs.SnapshotGet"
    /\ ret = NotReturned
    /\ ret' = efsSnapshotGet(call.id, call.resp, call.descs, providerRegion)
    /\ PureUnchanged

CallEbsSnapshotGet ==
    /\ call.op = "ebsStorage.SnapshotGet"
    /\ ret = NotReturned
    /\ ret' = ebsSnapshotGet(call.id, call.dso, providerRegion)
    /\ PureUnchanged

CallEbsSnapshotCreate ==
    /\ call.op = "ebsStorage.SnapshotCreate"
    /\ ret = NotReturned
    /\ ret' = ebsSnapshotCreate(call.volume, call.tags, call.fault, call.azo,
                                call.dry, providerRegion)
    /\ PureUnchanged

\* The backoff of waitOnSnapshotID and the backoff of waitOnVolume, their
\* durations in milliseconds.
snapWaitBackoff ==
    [Factor |-> 2, Jitter |-> FALSE, Min |-> 1000, Max |-> 10000]
volWaitBackoff ==
    [Factor |-> 2, Jitter |-> FALSE, Min |-> 10, Max |-> 10000]

\* The most sleeps of one wait whose intervals are computed.
MaxAttempts == 6

\* The interval that grows with each attempt and has no maximum.
ForAttempt_Uncapped(b, attempt) == b.Min * b.Factor ^ attempt

\* Backoff.ForAttempt without jitter: the minimum times the factor to the
\* power of the attempt, and the maximum where that is more.
ForAttempt(b, attempt) ==
    LET durf == b.Min * b.Factor ^ attempt
    IN  IF b.Min >= b.Max THEN b.Max
        ELSE IF durf < b.Min THEN b.Min
        ELSE IF durf > b.Max THEN b.Max
        ELSE durf

\* The intervals of the first n sleeps of a wait: Backoff.Duration is called
\* before each sleep, and each call counts one attempt more, from zero.
RECURSIVE Durations(_, _)
Durations(b, n) ==
    IF n = 0 THEN <<>>
    ELSE Append(Durations(b, n - 1), ForAttempt(b, n - 1))

\* The waits whose sleep intervals are computed.
BackoffCallInputs ==
    {[op |-> "Backoff.Duration", b |-> b, n |-> n] :
        b \in {snapWaitBackoff, volWaitBackoff}, n \in 0..MaxAttempts}

CallBackoffDuration ==
    /\ call.op = "Backoff.Duration"
    /\ ret = NotReturned
    /\ ret' = [intervals |-> Durations(call.b, call.n)]
    /\ PureUnchanged

(***************************************************************************)
(* The configuration of the EBS provider (PureSpec).                       *)
(***************************************************************************)

ConfigRegion    == "region"
AccessKeyID     == "AWS_ACCESS_KEY_ID"
SecretAccessKey == "AWS_SECRET_ACCESS_KEY"

\* The config maps GetConfig is given: any of the three keys and a key it
\* does not read, each with a value that may be empty.
ConfigInputs ==
    UNION {[keys -> {"", "us-west-2", "k"}] :
              keys \in SUBSET {ConfigRegion, AccessKeyID, SecretAccessKey,
                               "profile"}}

\* What GetConfig returns: the AWS configuration, the region and the error.
ConfigResult(awsConfig, region, err) ==
    [awsConfig |-> awsConfig, region |-> region, err |-> err]

\* GetConfig that looks for the secret key before the region.
GetConfig_SecretFirst(config) ==
    IF SecretAccessKey \notin DOMAIN config
    THEN ConfigResult(Nil, "",
                      "AWS_SECRET_ACCESS_KEY required for storage type EBS")
    ELSE IF AccessKeyID \notin DOMAIN config
    THEN ConfigResult(Nil, "",
                      "AWS_ACCESS_KEY_ID required for storage type EBS")
    ELSE IF ConfigRegion \notin DOMAIN config
    THEN ConfigResult(Nil, "", "region required for storage type EBS")
    ELSE ConfigResult([ptr |-> [accessKey |-> config[AccessKeyID],
                                secretAccessKey |-> config[SecretAccessKey]]],
                      config[ConfigRegion], NoErr)

GetConfig(config) ==
    IF ConfigRegion \notin DOMAIN config
    THEN ConfigResult(Nil, "", "region required for storage type EBS")
    ELSE IF AccessKeyID \notin DOMAIN config
    THEN ConfigResult(Nil, "",
                      "AWS_ACCESS_KEY_ID required for storage type EBS")
    ELSE IF SecretAccessKey \notin DOMAIN config
    THEN ConfigResult(Nil, "",
                      "AWS_SECRET_ACCESS_KEY required for storage type EBS")
    ELSE ConfigResult([ptr |-> [accessKey |-> config[AccessKeyID],
                                secretAccessKey |-> config[SecretAccessKey]]],
                      config[ConfigRegion], NoErr)

ConfigCallInputs ==
    {[op |-> "GetConfig", config |-> config] : config \in ConfigInputs}

CallGetConfig ==
    /\ call.op = "GetConfig"
    /\ ret = NotReturned
    /\ ret' = GetConfig(call.config)
    /\ PureUnchanged


\* Every call PureSpec may start from.
PureCallInputs ==
    CallInputs \cup VolumeGetCallInputs \cup ListCallInputs
               \cup MergeCallInputs \cup RestoreCallInputs
               \cup SetTagsCallInputs \cup RestoreTargetCallInputs
               \cup UnsupportedCallInputs \cup SnapshotCallInputs
               \cup BackoffCallInputs \cup ConfigCallInputs
               \cup CallerTagsCallInputs

(***************************************************************************)
(* EfsSpec: the calls of the EFS provider that take several requests:      *)
(* SnapshotCreate, VolumeCreateFromSnapshot and VolumesList.  The requests *)
(* of a call are kept in the order they were issued (reqs is a sequence    *)
(* here), and the context of the call is not cancelled.                    *)
(***************************************************************************)

k10BackupVaultName == "k10vault"
dummyMarker        == ""

\* The most items of a page of a list.
MaxPageSize == 2

MtIDs  == {"fsmt-1", "fsmt-2", "fsmt-3", "fsmt-4"}
JobIDs == {"job-1"}

\* The continuation marker EFS and AWS Backup give for the page that starts
\* at item n.
MarkerOf(n) == "marker-" \o <<"1", "2", "3", "4", "5", "6", "7", "8", "9">>[n]

\* One page of a list, as EFS and AWS Backup answer a paginated request: the
\* items from the marker on, at most pageSize of them, and the marker of the
\* next page when items are left.  A marker they have not given is refused.
listPage(items, pageSize, marker) ==
    LET known == {n \in 1..9 : marker # Nil /\ MarkerOf(n) = marker.ptr}
        start == IF marker = Nil THEN 1 ELSE CHOOSE n \in known : TRUE
        end   == IF start + pageSize - 1 < Len(items)
                 THEN start + pageSize - 1 ELSE Len(items)
    IN  IF marker # Nil /\ known = {}
        THEN [err |-> "BadRequest", Items |-> <<>>, NextMarker |-> Nil]
        ELSE [err |-> NoErr, Items |-> SubSeq(items, start, end),
              NextMarker |-> IF end < Len(items)
                             THEN StringPtr(MarkerOf(end + 1)) ELSE Nil]

\* A paginated request that failed.
FailedPage == [err |-> "InternalServerError", Items |-> <<>>,
               NextMarker |-> Nil]

\* emptyResponseRequestForMountTargets, emptyResponseRequestForFilesystems
\* and emptyResponseRequestForListTags that set no marker on the response.
emptyResponseRequest_NoMarker ==
    [resp |-> [Items |-> <<>>, NextMarker |-> Nil],
     req  |-> [Marker |-> Nil]]

\* emptyResponseRequestForMountTargets, emptyResponseRequestForFilesystems
\* and emptyResponseRequestForListTags: a response without items whose
\* marker is set, to the empty string, and a request without marker.
emptyResponseRequest ==
    [resp |-> [Items |-> <<>>, NextMarker |-> StringPtr(dummyMarker)],
     req  |-> [Marker |-> Nil]]

\* The loop `for resp, req := ...; resp.NextMarker != nil; req.Marker =
\* resp.NextMarker`, its post statement after a turn that was answered resp.
nextPageRequest(req, resp) == [req EXCEPT !.Marker = resp.NextMarker]

\* The condition of that loop.
morePages(resp) == resp.NextMarker # Nil

\* createK10DefaultBackupVault: the error of CreateBackupVault, and none when
\* the vault exists already.
isBackupVaultAlreadyExists(err) == err = "AlreadyExistsException"

createK10DefaultBackupVault_VaultMustBeNew(err) == err

createK10DefaultBackupVault(err) ==
    IF isBackupVaultAlreadyExists(err) THEN NoErr ELSE err

\* AWS Backup CreateBackupVault.
backupCreateBackupVault(backend) ==
    IF backend.vault THEN "AlreadyExistsException" ELSE NoErr

\* The recovery point is not in the vault (yet).
isRecoveryPointNotFound(err) == err = "ResourceNotFoundException"

\* AWS Backup DescribeRecoveryPoint.
backupDescribeRecoveryPoint(states, arn) ==
    IF states[arn] \in {"none", "CREATED"}
    THEN [err |-> "ResourceNotFoundException", Status |-> ""]
    ELSE [err |-> NoErr, Status |-> states[arn]]

\* What SnapshotCreate of the EFS provider is called with and what its
\* local variables hold at the start.
EfsSnapshotCreateInputs ==
    {[name |-> "EFS.SnapshotCreate",
      volume |-> [ID |-> "fs-1", Encrypted |-> FALSE, Size |-> 1],
      tags |-> tags, desc |-> Nil, page |-> emptyResponseRequest,
      mts |-> <<>>, infraTags |-> EmptyMap, allTags |-> EmptyMap,
      resp |-> Nil] :
        tags \in {EmptyMap, [k \in {"app"} |-> "db"]}}

\* The mount targets EFS holds for the file system, each with its subnet and
\* its security groups.
MountTargetInputs ==
    {<<>>,
     <<[MountTargetId |-> StringPtr("fsmt-1"),
        SubnetId |-> StringPtr("subnet-1"), SecurityGroups |-> <<"sg-1">>]>>,
     <<[MountTargetId |-> StringPtr("fsmt-1"),
        SubnetId |-> Nil, SecurityGroups |-> <<>>]>>,
     <<[MountTargetId |-> StringPtr("fsmt-1"),
        SubnetId |-> StringPtr("subnet-1"), SecurityGroups |-> <<"sg-1">>],
       [MountTargetId |-> StringPtr("fsmt-2"),
        SubnetId |-> StringPtr("subnet-2"), SecurityGroups |-> <<>>]>>}

EfsUnchanged ==
    UNCHANGED <<pureVars, ebsVolumes, ebsSnapshots, clientVars, deleteVars,
                ctxDone, controllerVars>>

\* The error a request fails with when the backend is at fault.
FaultErr(fault) == IF fault = "none" THEN NoErr ELSE "InternalServerError"

\* A describe of the call, after the requests it has issued before, with the
\* error it was answered with and the state it has shown; for a list, the
\* continuation marker of the page, empty for none.
IssueDescribe(api, input, err, state) ==
    reqs' = Append(reqs, [api |-> api, client |-> providerRegion,
                          input |-> input, err |-> err, state |-> state])

\* Any other request of the call, with the error it was answered with.
Issue(api, input, err) == IssueDescribe(api, input, err, "")

\* The call returns an error.
Fail(err) ==
    /\ pc' = "done"
    /\ out' = IF op.name = "EFS.SnapshotCreate"
              THEN Failed(err) ELSE FailedVolume(err)

\* efs.SnapshotCreate, its first step: the vault is made.
EfsSnapshotCreate ==
    /\ pc = "EfsSnapshotCreate"
    /\ \E fault \in {"none", "CreateBackupVault"} :
          LET answer == IF fault = "none"
                        THEN backupCreateBackupVault(efsBackend)
                        ELSE "InternalServerError"
              err    == createK10DefaultBackupVault(answer)
          IN  /\ Issue("backup.CreateBackupVault",
                       [BackupVaultName |-> k10BackupVaultName], answer)
              /\ efsBackend' = IF fault = "none"
                               THEN [efsBackend EXCEPT !.vault = TRUE]
                               ELSE efsBackend
              /\ IF err # NoErr
                 THEN Fail("Failed to setup K10 vault for AWS Backup")
                 ELSE /\ pc' = "getFileSystemDescriptionWithID"
                      /\ out' = out
    /\ UNCHANGED <<op, efsFileSystems, efsRecoveryPoints, lifecycle,
                   waitVars>>
    /\ EfsUnchanged

\* efs.SnapshotCreate: the file system is described, and the loop over the
\* pages of its mount targets is entered.
EfsSnapshotCreateDescribe ==
    /\ pc = "getFileSystemDescriptionWithID"
    /\ op.name = "EFS.SnapshotCreate"
    /\ \E fault \in {"none", "DescribeFileSystems"} :
          LET descs == IF fault = "none"
                       THEN efsDescribeFileSystems(efsFileSystems, lifecycle,
                                                   op.volume.ID)
                       ELSE [err |-> "InternalServerError",
                             FileSystems |-> <<>>]
              d     == getFileSystemDescriptionWithID(descs)
              page  == emptyResponseRequest
          IN  /\ Issue("efs.DescribeFileSystems",
                       [FileSystemId |-> op.volume.ID], descs.err)
              /\ IF d.err # NoErr
                 THEN /\ Fail("Failed to get corresponding description")
                      /\ op' = op
                 ELSE /\ op' = [op EXCEPT !.desc = d.desc, !.page = page]
                      /\ pc' = IF morePages(page.resp)
                               THEN "DescribeMountTargets"
                               ELSE "StartBackupJob"
                      /\ out' = out
    /\ UNCHANGED <<efsFileSystems, efsRecoveryPoints, lifecycle, waitVars,
                   efsVars>>
    /\ EfsUnchanged

\* getMountPointAndSecurityGroupTags, one turn of its first loop: a page of
\* the mount targets of the file system is fetched and kept.
DescribeMountTargets ==
    /\ pc = "DescribeMountTargets"
    /\ \E fault \in {"none", "DescribeMountTargets"} :
          LET req  == [Marker |-> op.page.req.Marker,
                       FileSystemId |-> op.volume.ID]
              resp == IF fault = "none"
                      THEN listPage(efsBackend.mountTargets,
                                    efsBackend.pageSize, req.Marker)
                      ELSE FailedPage
              mts  == op.mts \o resp.Items
          IN  /\ IssueDescribe("efs.DescribeMountTargets", req, resp.err,
                            IF resp.NextMarker = Nil THEN ""
                            ELSE resp.NextMarker.ptr)
              /\ IF resp.err # NoErr
                 THEN /\ Fail("Failed to get mount points and security groups")
                      /\ op' = op
                 ELSE /\ op' = [op EXCEPT
                                   !.mts = mts,
                                   !.page = [resp |-> resp,
                                             req  |-> nextPageRequest(
                                                          req, resp)]]
                      /\ pc' = IF morePages(resp)
                               THEN "DescribeMountTargets"
                               ELSE IF Len(mts) > 0
                               THEN "DescribeMountTargetSecurityGroups"
                               ELSE "StartBackupJob"
                      /\ out' = out
    /\ UNCHANGED <<efsFileSystems, efsRecoveryPoints, lifecycle, waitVars,
                   efsVars>>
    /\ EfsUnchanged

\* getMountPointAndSecurityGroupTags, one turn of its second loop: the
\* security groups of the next mount target are fetched and the mount
\* target is encoded as a tag.
DescribeMountTargetSecurityGroups ==
    /\ pc = "DescribeMountTargetSecurityGroups"
    /\ \E fault \in {"none", "DescribeMountTargetSecurityGroups"} :
          LET mt  == op.mts[1]
              key == mountTargetKey(mt.MountTargetId.ptr)
          IN  /\ Issue("efs.DescribeMountTargetSecurityGroups",
                       [MountTargetId |-> mt.MountTargetId.ptr],
                       FaultErr(fault))
              /\ IF fault # "none" \/ mt.SubnetId = Nil
                 THEN /\ Fail("Failed to get mount points and security groups")
                      /\ op' = op
                 ELSE /\ op' = [op EXCEPT
                                   !.mts = Tail(op.mts),
                                   !.infraTags =
                                       (key :> mountTargetValue(
                                                   mt.SubnetId.ptr,
                                                   mt.SecurityGroups))
                                       @@ op.infraTags]
                      /\ pc' = IF Len(op.mts) > 1
                               THEN "DescribeMountTargetSecurityGroups"
                               ELSE "StartBackupJob"
                      /\ out' = out
    /\ UNCHANGED <<efsFileSystems, efsRecoveryPoints, lifecycle, waitVars,
                   efsVars>>
    /\ EfsUnchanged

\* efs.SnapshotCreate: the backup job is started with the tags of the caller
\* and the tags of the mount targets.
StartBackupJob ==
    /\ pc = "StartBackupJob"
    /\ \E fault \in {"none", "StartBackupJob"},
          arn \in {a \in RpARNs : lifecycle[a] = "none"} :
          LET allTags == Union(op.tags, op.infraTags)
          IN  /\ Issue("backup.StartBackupJob",
                       [BackupVaultName |-> k10BackupVaultName,
                        ResourceArn |-> op.desc.FileSystemId,
                        RecoveryPointTags |-> allTags], FaultErr(fault))
              /\ IF fault # "none"
                 THEN /\ Fail("Failed to start a backup job")
                      /\ UNCHANGED <<op, lifecycle>>
                 ELSE /\ op' = [op EXCEPT
                                   !.allTags = allTags,
                                   !.resp = [RecoveryPointArn |-> arn,
                                             CreationDate |-> "now"]]
                      /\ lifecycle' = [lifecycle EXCEPT ![arn] = "CREATED"]
                      /\ pc' = "waitUntilRecoveryPointVisible"
                      /\ out' = out
    /\ UNCHANGED <<efsFileSystems, efsRecoveryPoints, waitVars, efsVars>>
    /\ EfsUnchanged

\* waitUntilRecoveryPointVisible: the recovery point is described until the
\* vault knows it.
WaitUntilRecoveryPointVisible ==
    /\ pc = "waitUntilRecoveryPointVisible"
    /\ \E fault \in {"none", "DescribeRecoveryPoint"} :
          LET arn  == op.resp.RecoveryPointArn
              resp == IF fault = "none"
                      THEN backupDescribeRecoveryPoint(lifecycle, arn)
                      ELSE [err |-> "InternalServerError", Status |-> ""]
              w    == WaitWithBackoff(
                          [done |-> resp.err = NoErr,
                           err  |-> IF isRecoveryPointNotFound(resp.err)
                                    THEN NoErr ELSE resp.err])
          IN  /\ IssueDescribe("backup.DescribeRecoveryPoint",
                               [BackupVaultName |-> k10BackupVaultName,
                                RecoveryPointArn |-> arn],
                               resp.err, resp.Status)
              /\ seen' = Append(seen, IF resp.err # NoErr THEN resp.err
                                      ELSE resp.Status)
              /\ CASE w = "error" ->
                        /\ Fail("Failed to fetch recovery point")
                        /\ sleeps' = sleeps
                   [] w = "done" ->
                        /\ pc' = "setBackupTags"
                        /\ out' = out
                        /\ sleeps' = sleeps
                   [] w = "sleep" ->
                        /\ sleeps < MaxSleeps
                        /\ pc' = pc
                        /\ out' = out
                        /\ sleeps' = sleeps + 1
    /\ UNCHANGED <<op, efsFileSystems, efsRecoveryPoints, lifecycle, efsVars>>
    /\ EfsUnchanged

\* efs.SnapshotCreate, its last step: the tags of the mount targets are set
\* on the recovery point, and the snapshot is returned.
EfsSnapshotCreateSetTags ==
    /\ pc = "setBackupTags"
    /\ \E fault \in {"none", "TagResource"} :
          LET arn == op.resp.RecoveryPointArn
          IN  /\ Issue("backup.TagResource",
                       [ResourceArn |-> arn, Tags |-> op.infraTags],
                       FaultErr(fault))
              /\ IF fault # "none"
                 THEN Fail("Failed to set backup tags")
                 ELSE /\ pc' = "done"
                      /\ out' = Succeeded(
                             [CreationTime |-> op.resp.CreationDate,
                              Encrypted    |-> op.volume.Encrypted,
                              ID           |-> arn,
                              Region       |-> providerRegion,
                              Size         |-> op.volume.Size,
                              Tags         |-> MapToKeyValue(op.allTags),
                              Volume       |-> op.volume,
                              Type         |-> "EFS"])
    /\ UNCHANGED <<op, efsFileSystems, efsRecoveryPoints, lifecycle,
                   waitVars, efsVars>>
    /\ EfsUnchanged

\* AWS Backup goes on with a backup job: the recovery point appears in the
\* vault, and is completed later.
RecoveryPointProgress ==
    /\ \E arn \in RpARNs :
          \/ /\ lifecycle[arn] = "CREATED"
             /\ lifecycle' = [lifecycle EXCEPT ![arn] = "PARTIAL"]
             /\ efsRecoveryPoints' = efsRecoveryPoints \cup {arn}
          \/ /\ lifecycle[arn] = "PARTIAL"
             /\ lifecycle' = [lifecycle EXCEPT ![arn] = "COMPLETED"]
             /\ efsRecoveryPoints' = efsRecoveryPoints
    /\ UNCHANGED <<pc, op, reqs, out, efsFileSystems, waitVars, efsVars>>
    /\ EfsUnchanged

\* AWS Backup DescribeRestoreJob.
backupDescribeRestoreJob(states, id) ==
    [err |-> NoErr, Status |-> states[id],
     CreatedResourceArn |->
         IF states[id] = "COMPLETED"
         THEN StringPtr("arn:aws:elasticfilesystem:file-system/fs-2")
         ELSE Nil]

\* What waitUntilRestoreComplete makes of one describe of the restore job:
\* done when the job is completed, an error when the describe failed or the
\* job was aborted or has failed, and neither while it is under way.
waitUntilRestoreCompleteCheck(resp) ==
    IF resp.err # NoErr
    THEN [done |-> FALSE, err |-> resp.err]
    ELSE IF resp.Status = "COMPLETED"
    THEN [done |-> TRUE, err |-> NoErr]
    ELSE IF resp.Status \in {"ABORTED", "FAILED"}
    THEN [done |-> FALSE,
          err |-> "Restore job is not completed successfully"]
    ELSE [done |-> FALSE, err |-> NoErr]

\* A wait that takes a mount target in any state for ready.
waitUntilMountTargetReadyCheck_AnyState(resp) ==
    [done |-> resp.err = NoErr, err |-> resp.err]

\* What waitUntilMountTargetReady makes of one describe of the mount target:
\* done when it is available, an error when the describe failed.
waitUntilMountTargetReadyCheck(resp) ==
    IF resp.err # NoErr
    THEN [done |-> FALSE, err |-> resp.err]
    ELSE [done |-> resp.LifeCycleState = "available", err |-> NoErr]

\* The IDs EFS gives to the mount targets it creates, in this order.
CreatedMtIDs == <<"fsmt-3", "fsmt-4">>

\* What VolumeCreateFromSnapshot of the EFS provider is called with and what
\* its local variables hold at the start.
EfsVolumeCreateFromSnapshotInputs ==
    {[name |-> "EFS.VolumeCreateFromSnapshot",
      snapshot |-> [ID |-> "arn:rp-1"], tags |-> tags,
      rpTags |-> EmptyMap, rp2Tags |-> EmptyMap,
      page |-> emptyResponseRequest, decoded |-> EmptyMap, mts |-> <<>>,
      restoreID |-> "", fsID |-> "", created |-> <<>>, waited |-> 0] :
        tags \in {EmptyMap, [k \in {"app"} |-> "web"]}}

\* The tags AWS Backup lists for the recovery point, in the order it lists
\* them.
RecoveryPointTagInputs ==
    {<<>>,
     <<[Key |-> mountTargetKey("fsmt-1"), Value |-> "subnet-1+sg-1"]>>,
     <<[Key |-> mountTargetKey("fsmt-1"), Value |-> "subnet-1+sg-1"],
       [Key |-> mountTargetKey("fsmt-2"), Value |-> "subnet-2+"]>>,
     <<[Key |-> "app", Value |-> "db"],
       [Key |-> mountTargetKey("fsmt-1"), Value |-> "subnet-1+sg-1"],
       [Key |-> "Encrypted", Value |-> "true"]>>,
     <<[Key |-> mountTargetKey("fsmt-1"), Value |-> "subnet-1"]>>}

\* efs.VolumeCreateFromSnapshot, its first step: the restore metadata of the
\* recovery point is fetched, and the loop over the pages of its tags is
\* entered.
EfsVolumeCreateFromSnapshot ==
    /\ pc = "EfsVolumeCreateFromSnapshot"
    /\ \E fault \in {"none", "GetRecoveryPointRestoreMetadata"} :
          LET page == emptyResponseRequest
          IN  /\ Issue("backup.GetRecoveryPointRestoreMetadata",
                       [BackupVaultName |-> k10BackupVaultName,
                        RecoveryPointArn |-> op.snapshot.ID],
                       FaultErr(fault))
              /\ IF fault # "none"
                 THEN /\ Fail("Failed to get backup tag from recovery point directly")
                      /\ op' = op
                 ELSE /\ op' = [op EXCEPT
                                   !.rpTags = efsBackend.restoreMetadata,
                                   !.page = page]
                      /\ pc' = IF morePages(page.resp)
                               THEN "ListTags" ELSE "StartRestoreJob"
                      /\ out' = out
    /\ UNCHANGED <<efsFileSystems, efsRecoveryPoints, lifecycle, waitVars,
                   efsVars>>
    /\ EfsUnchanged

\* getBackupTags, one turn of its loop: a page of the tags of the recovery
\* point is fetched and united with the pages before.
ListTags ==
    /\ pc = "ListTags"
    /\ \E fault \in {"none", "ListTags"} :
          LET req  == [Marker |-> op.page.req.Marker,
                       ResourceArn |-> op.snapshot.ID]
              resp == IF fault = "none"
                      THEN listPage(efsBackend.tags, efsBackend.pageSize,
                                    req.Marker)
                      ELSE FailedPage
          IN  /\ IssueDescribe("backup.ListTags", req, resp.err,
                            IF resp.NextMarker = Nil THEN ""
                            ELSE resp.NextMarker.ptr)
              /\ IF resp.err # NoErr
                 THEN /\ Fail("Failed to get backup tag from recovery point")
                      /\ op' = op
                 ELSE /\ op' = [op EXCEPT
                                   !.rp2Tags = Union(op.rp2Tags,
                                                  KeyValueToMap(resp.Items)),
                                   !.page = [resp |-> resp,
                                             req  |-> nextPageRequest(
                                                          req, resp)]]
                      /\ pc' = IF morePages(resp)
                               THEN "ListTags" ELSE "StartRestoreJob"
                      /\ out' = out
    /\ UNCHANGED <<efsFileSystems, efsRecoveryPoints, lifecycle, waitVars,
                   efsVars>>
    /\ EfsUnchanged

\* efs.VolumeCreateFromSnapshot: the tags of both sources are united, the
\* mount targets are decoded from them, and the restore job is started with
\* the other tags and the restore tags as its metadata.
StartRestoreJob ==
    /\ pc = "StartRestoreJob"
    /\ \E fault \in {"none", "StartRestoreJob", "no RestoreJobId"},
          order \in Orders(DOMAIN Union(op.rpTags, op.rp2Tags)),
          job \in JobIDs :
          LET rpTags == Union(op.rpTags, op.rp2Tags)
              m      == restoreMetadata(rpTags, order)
          IN  IF m.err
              THEN /\ Fail("Failed to get filtered tags and mount targets")
                   /\ UNCHANGED <<op, reqs, lifecycle>>
              ELSE /\ Issue("backup.StartRestoreJob",
                            [Metadata         |-> m.metadata,
                             RecoveryPointArn |-> op.snapshot.ID,
                             ResourceType     |-> "EFS"],
                            IF fault = "StartRestoreJob"
                            THEN "InternalServerError" ELSE NoErr)
                   /\ CASE fault = "StartRestoreJob" ->
                             /\ Fail("Failed to start the restore job")
                             /\ UNCHANGED <<op, lifecycle>>
                        [] fault = "no RestoreJobId" ->
                             /\ Fail("Empty restore job ID")
                             /\ UNCHANGED <<op, lifecycle>>
                        [] OTHER ->
                             /\ op' = [op EXCEPT
                                          !.rpTags = rpTags,
                                          !.decoded = m.mountTargets,
                                          !.restoreID = job]
                             /\ lifecycle' = [lifecycle EXCEPT
                                                 ![job] = "RUNNING"]
                             /\ pc' = "waitUntilRestoreComplete"
                             /\ out' = out
    /\ UNCHANGED <<efsFileSystems, efsRecoveryPoints, waitVars, efsVars>>
    /\ EfsUnchanged

\* waitUntilRestoreComplete: the restore job is described until it is
\* completed.
WaitUntilRestoreComplete ==
    /\ pc = "waitUntilRestoreComplete"
    /\ \E fault \in {"none", "DescribeRestoreJob"} :
          LET resp == IF fault = "none"
                      THEN backupDescribeRestoreJob(lifecycle, op.restoreID)
                      ELSE [err |-> "InternalServerError", Status |-> "",
                            CreatedResourceArn |-> Nil]
              w    == WaitWithBackoff(waitUntilRestoreCompleteCheck(resp))
          IN  /\ IssueDescribe("backup.DescribeRestoreJob",
                               [RestoreJobId |-> op.restoreID],
                               resp.err, resp.Status)
              /\ seen' = Append(seen, IF resp.err # NoErr THEN resp.err
                                      ELSE resp.Status)
              /\ CASE w = "error" ->
                        /\ Fail("Restore job failed to complete")
                        /\ sleeps' = sleeps
                   [] w = "done" ->
                        /\ pc' = "DescribeRestoreJob"
                        /\ out' = out
                        /\ sleeps' = sleeps
                   [] w = "sleep" ->
                        /\ sleeps < MaxSleeps
                        /\ pc' = pc
                        /\ out' = out
                        /\ sleeps' = sleeps + 1
    /\ UNCHANGED <<op, efsFileSystems, efsRecoveryPoints, lifecycle, efsVars>>
    /\ EfsUnchanged

\* efs.VolumeCreateFromSnapshot: the completed job is described for the file
\* system it has made, and createMountTargets is entered with the decoded
\* mount targets, in the order the iteration over the map yields them.
DescribeRestoreJob ==
    /\ pc = "DescribeRestoreJob"
    /\ \E fault \in {"none", "DescribeRestoreJob"},
          order \in Orders(DOMAIN op.decoded) :
          LET resp == IF fault = "none"
                      THEN backupDescribeRestoreJob(lifecycle, op.restoreID)
                      ELSE [err |-> "InternalServerError", Status |-> "",
                            CreatedResourceArn |-> Nil]
              fs   == IF resp.err = NoErr
                      THEN efsIDFromResourceARN(resp.CreatedResourceArn.ptr)
                      ELSE [id |-> "", err |-> resp.err]
          IN  /\ IssueDescribe("backup.DescribeRestoreJob",
                               [RestoreJobId |-> op.restoreID],
                               resp.err, resp.Status)
              /\ IF resp.err # NoErr
                 THEN /\ Fail("Failed to get description for the restore job")
                      /\ op' = op
                 ELSE IF fs.err # NoErr
                 THEN /\ Fail("Failed to get filesystem ID")
                      /\ op' = op
                 ELSE /\ op' = [op EXCEPT
                                   !.fsID = fs.id,
                                   !.mts = [i \in 1..Len(order) |->
                                               op.decoded[order[i]]]]
                      /\ pc' = IF Len(order) > 0
                               THEN "CreateMountTarget"
                               ELSE "EfsRestoreVolumeGet"
                      /\ out' = out
    /\ UNCHANGED <<efsFileSystems, efsRecoveryPoints, lifecycle, waitVars,
                   efsVars>>
    /\ EfsUnchanged

\* createMountTargets, one turn of its first loop: the next mount target is
\* created on the file system.
CreateMountTarget ==
    /\ pc = "CreateMountTarget"
    /\ \E fault \in {"none", "CreateMountTarget"} :
          LET v     == op.mts[1]
              newID == CreatedMtIDs[Len(op.created) + 1]
          IN  /\ Issue("efs.CreateMountTarget",
                       [FileSystemId   |-> op.fsID,
                        SubnetId       |-> v.subnetID,
                        SecurityGroups |-> v.securityGroups],
                       FaultErr(fault))
              /\ IF fault # "none"
                 THEN /\ Fail("Failed to create mount targets")
                      /\ UNCHANGED <<op, lifecycle>>
                 ELSE /\ op' = [op EXCEPT
                                   !.mts = Tail(op.mts),
                                   !.created = Append(op.created,
                                                  [MountTargetId |->
                                                       StringPtr(newID)])]
                      /\ lifecycle' = [lifecycle EXCEPT
                                          ![newID] = "creating"]
                      /\ pc' = IF Len(op.mts) > 1
                               THEN "CreateMountTarget"
                               ELSE "waitUntilMountTargetReady"
                      /\ out' = out
    /\ UNCHANGED <<efsFileSystems, efsRecoveryPoints, waitVars, efsVars>>
    /\ EfsUnchanged

\* createMountTargets, its second loop: waitUntilMountTargetReady describes
\* the next created mount target until it is available.
WaitUntilMountTargetReady ==
    /\ pc = "waitUntilMountTargetReady"
    /\ \E fault \in {"none", "DescribeMountTargets"} :
          LET id   == op.created[op.waited + 1].MountTargetId.ptr
              resp == IF fault = "none"
                      THEN [err |-> NoErr, LifeCycleState |-> lifecycle[id]]
                      ELSE [err |-> "InternalServerError",
                            LifeCycleState |-> ""]
              w    == WaitWithBackoff(waitUntilMountTargetReadyCheck(resp))
          IN  /\ IssueDescribe("efs.DescribeMountTargets",
                               [MountTargetId |-> id],
                               resp.err, resp.LifeCycleState)
              /\ seen' = Append(seen, IF resp.err # NoErr THEN resp.err
                                      ELSE resp.LifeCycleState)
              /\ CASE w = "error" ->
                        /\ Fail("Failed to create mount targets")
                        /\ UNCHANGED <<op, sleeps>>
                   [] w = "done" ->
                        /\ op' = [op EXCEPT !.waited = op.waited + 1]
                        /\ pc' = IF op.waited + 1 < Len(op.created)
                                 THEN "waitUntilMountTargetReady"
                                 ELSE "EfsRestoreVolumeGet"
                        /\ out' = out
                        /\ sleeps' = sleeps
                   [] w = "sleep" ->
                        /\ sleeps < MaxSleeps
                        /\ pc' = pc
                        /\ out' = out
                        /\ op' = op
                        /\ sleeps' = sleeps + 1
    /\ UNCHANGED <<efsFileSystems, efsRecoveryPoints, lifecycle, efsVars>>
    /\ EfsUnchanged

\* efs.VolumeCreateFromSnapshot, its last step: VolumeGet of the new file
\* system, and what it finds is returned.
EfsRestoreVolumeGet ==
    /\ pc = "EfsRestoreVolumeGet"
    /\ \E fault \in {"none", "DescribeFileSystems"} :
          LET descs == IF fault = "none"
                       THEN efsDescribeFileSystems(efsFileSystems, lifecycle,
                                                   op.fsID)
                       ELSE [err |-> "InternalServerError",
                             FileSystems |-> <<>>]
          IN  /\ Issue("efs.DescribeFileSystems",
                       [FileSystemId |-> op.fsID], descs.err)
              /\ out' = efsVolumeGet(descs, "")
    /\ pc' = "done"
    /\ UNCHANGED <<op, efsFileSystems, efsRecoveryPoints, lifecycle,
                   waitVars, efsVars>>
    /\ EfsUnchanged

\* AWS Backup ends a restore job: the job is completed and its file system
\* exists, or the job has failed.
RestoreJobProgress ==
    /\ \E job \in JobIDs :
          /\ lifecycle[job] = "RUNNING"
          /\ \/ /\ lifecycle' = [lifecycle EXCEPT ![job] = "COMPLETED",
                                                  !["fs-2"] = "available"]
                /\ efsFileSystems' = efsFileSystems \cup {"fs-2"}
             \/ /\ lifecycle' = [lifecycle EXCEPT ![job] = "FAILED"]
                /\ efsFileSystems' = efsFileSystems
    /\ UNCHANGED <<pc, op, reqs, out, efsRecoveryPoints, waitVars, efsVars>>
    /\ EfsUnchanged

\* EFS finishes the creation of a mount target.
MountTargetProgress ==
    /\ \E i \in 1..Len(CreatedMtIDs) :
          /\ lifecycle[CreatedMtIDs[i]] = "creating"
          /\ lifecycle' = [lifecycle EXCEPT ![CreatedMtIDs[i]] = "available"]
    /\ UNCHANGED <<pc, op, reqs, out, efsFileSystems, efsRecoveryPoints,
                   waitVars, efsVars>>
    /\ EfsUnchanged

\* filterWithTags: the file systems of a list that carry every one of the
\* tags, with the same value.
filterWithTags(fileSystems, tags) ==
    SelectSeq(fileSystems,
              LAMBDA fs : \A k \in DOMAIN tags :
                             k \in DOMAIN fs.Tags /\ fs.Tags[k] = tags[k])

\* volumesFromEFSDescriptions: the blockstorage.Volume of each file system.
volumesFromEFSDescriptions(descs, zone) ==
    [i \in 1..Len(descs) |-> volumeFromEFSDescription(descs[i], zone)]

\* What VolumesList of the EFS provider is called with and what its local
\* variables hold at the start.
EfsVolumesListInputs ==
    {[name |-> "EFS.VolumesList", tags |-> tags, zone |-> "",
      page |-> emptyResponseRequest, result |-> <<>>] :
        tags \in {EmptyMap, [k \in {"app"} |-> "db"]}}

\* The file systems EFS holds, in the order it lists them.
FileSystemListInputs ==
    LET fs(id, state, tags) ==
            [FileSystemId |-> id, LifeCycleState |-> state, Tags |-> tags]
        db == [k \in {"app"} |-> "db"]
    IN  {<<>>,
         <<fs("fs-1", "available", db)>>,
         <<fs("fs-1", "available", db), fs("fs-2", "creating", db)>>,
         <<fs("fs-1", "available", EmptyMap), fs("fs-2", "available", db),
           fs("fs-3", "available", db)>>}

\* efs.VolumesList, one turn of its loop, or its return after the loop: a
\* page of the file systems is fetched, and those of the page that carry the
\* tags and are available are added to the result.
EfsVolumesList ==
    /\ pc = "EfsVolumesList"
    /\ IF ~morePages(op.page.resp)
       THEN /\ pc' = "done"
            /\ out' = ReturnedList(op.result)
            /\ UNCHANGED <<op, reqs>>
       ELSE \E fault \in {"none", "DescribeFileSystems"} :
               LET req  == op.page.req
                   resp == IF fault = "none"
                           THEN listPage(efsBackend.fileSystems,
                                         efsBackend.pageSize, req.Marker)
                           ELSE FailedPage
                   availables == filterAvailable(
                                     filterWithTags(resp.Items, op.tags))
               IN  /\ IssueDescribe("efs.DescribeFileSystems", req, resp.err,
                                    IF resp.NextMarker = Nil THEN ""
                                    ELSE resp.NextMarker.ptr)
                   /\ IF resp.err # NoErr
                      THEN /\ pc' = "done"
                           /\ out' = FailedList(resp.err)
                           /\ op' = op
                      ELSE /\ op' = [op EXCEPT
                                        !.result = op.result \o
                                            volumesFromEFSDescriptions(
                                                availables, op.zone),
                                        !.page = [resp |-> resp,
                                                  req  |-> nextPageRequest(
                                                               req, resp)]]
                           /\ pc' = pc
                           /\ out' = out
    /\ UNCHANGED <<efsFileSystems, efsRecoveryPoints, lifecycle, waitVars,
                   efsVars>>
    /\ EfsUnchanged

(***************************************************************************)
(* ReconcileSpec: the reconciler of ActionSets.  The API server holds one  *)
(* ActionSet or none; its users create it, delete it and set its status    *)
(* while a Reconcile is under way.  The steps of the Reconcile in progress *)
(* are kept in order (reqs is a sequence here): the requests to the API    *)
(* server and the calls of the controller's handlers.                      *)
(***************************************************************************)

\* The API server holds no ActionSet.
NoCluster == [exists |-> FALSE]

\* The finalizer addFinalizer writes, and one of another controller.
ActionSetFinalizer == "actionsetcleaner.cr.kanister.io"
OtherFinalizer     == "foregroundDeletion"

\* The lists of finalizers an ActionSet is created with.  The API server
\* leaves an empty list out of what it sends, so that a decoded object has
\* the nil list: the empty sequence stands for it.
FinalizerInputs == {<<>>, <<ActionSetFinalizer>>, <<OtherFinalizer>>}

\* The ActionSet as the API server holds it.
ActionSetObject(deleted, status, finalizers) ==
    [exists |-> TRUE, deletionTimestamp |-> deleted, status |-> status,
     finalizers |-> finalizers]

\* ctrl.Result{} with the error of the Reconcile.
ReconcileResult(err) == [requeue |-> FALSE, err |-> err]

\* A step of the Reconcile: a request or a handler, the finalizers of the
\* object it is given, and its error.
Step(api, finalizers, err) ==
    reqs' = Append(reqs, [api |-> api, finalizers |-> finalizers,
                          err |-> err])

ReconcileUnchanged ==
    UNCHANGED <<pureVars, backendVars, clientVars, deleteVars, ctxDone,
                lifecycle, waitVars, efsVars>>

\* Client.Update of the object a Reconcile has fetched: the API server
\* refuses it when it holds no such object any more or has changed it
\* since, and may fail at any time.
UpdateErrs(fetched) ==
    IF cluster = fetched
    THEN {NoErr, "InternalError"}
    ELSE {IF cluster.exists THEN "Conflict" ELSE "NotFound"}

\* What the API server holds after the update has written the finalizers: an
\* object that is being deleted goes with its last finalizer.
Updated(finalizers) ==
    IF cluster.deletionTimestamp /\ finalizers = <<>>
    THEN NoCluster
    ELSE [cluster EXCEPT !.finalizers = finalizers]

\* Reconcile up to its dispatch: the ActionSet is fetched; one that is not
\* found ends the Reconcile without error, any other error ends it with
\* the error, and the object found goes to the delete path when it has a
\* deletion timestamp, to the create path when it has no status, and to
\* the update path otherwise.
Reconcile ==
    /\ pc \in {"Reconcile", "done"}
    /\ \E fault \in {"none", "Get"} :
          LET err == IF fault = "Get" THEN "InternalError"
                     ELSE IF ~cluster.exists THEN "NotFound" ELSE NoErr
          IN  /\ reqs' = <<[api |-> "Get", finalizers |-> <<>>,
                            err |-> err]>>
              /\ IF err = "NotFound"
                 THEN /\ pc' = "done"
                      /\ out' = ReconcileResult(NoErr)
                      /\ op' = [name |-> "Reconcile", fetched |-> NoCluster,
                                actionset |-> NoCluster]
                 ELSE IF err # NoErr
                 THEN /\ pc' = "done"
                      /\ out' = ReconcileResult(err)
                      /\ op' = [name |-> "Reconcile", fetched |-> NoCluster,
                                actionset |-> NoCluster]
                 ELSE /\ pc' = IF cluster.deletionTimestamp THEN "onDelete"
                               ELSE IF ~cluster.status THEN "addFinalizer"
                               ELSE "onUpdate"
                      /\ out' = Nil
                      /\ op' = [name |-> "Reconcile", fetched |-> cluster,
                                actionset |-> cluster]
    /\ UNCHANGED cluster
    /\ ReconcileUnchanged

\* The delete path: the handler of the controller.
OnDelete ==
    /\ pc = "onDelete"
    /\ Step("onDelete", op.actionset.finalizers, NoErr)
    /\ pc' = "removeFinalizer"
    /\ UNCHANGED <<op, out, cluster>>
    /\ ReconcileUnchanged

\* removeFinalizer: the list of finalizers is set to nil and the object is
\* updated.  Reconcile does not look at the error.
RemoveFinalizer ==
    /\ pc = "removeFinalizer"
    /\ \E err \in UpdateErrs(op.fetched) :
          /\ Step("Update", <<>>, err)
          /\ cluster' = IF err = NoErr THEN Updated(<<>>) ELSE cluster
    /\ op' = [op EXCEPT !.actionset.finalizers = <<>>]
    /\ pc' = "done"
    /\ out' = ReconcileResult(NoErr)
    /\ ReconcileUnchanged

\* addFinalizer that takes the object for written when the update fails.
addFinalizerResult_ErrorIgnored(err) == NoErr

\* addFinalizer, the error it returns after the update has answered.
addFinalizerResult(err) == err

\* The create path up to the handler: addFinalizer writes its finalizer into
\* an object whose list of finalizers is nil and updates the object; the
\* error of the update ends the Reconcile.  An object with a list of
\* finalizers is not written.
AddFinalizer ==
    /\ pc = "addFinalizer"
    /\ IF op.actionset.finalizers = <<>>
       THEN \E answer \in UpdateErrs(op.fetched) :
               LET err == addFinalizerResult(answer)
               IN  /\ Step("Update", <<ActionSetFinalizer>>, answer)
                   /\ cluster' = IF answer = NoErr
                                 THEN Updated(<<ActionSetFinalizer>>)
                                 ELSE cluster
                   /\ op' = [op EXCEPT !.actionset.finalizers =
                                           <<ActionSetFinalizer>>]
                   /\ IF err # NoErr
                      THEN pc' = "done" /\ out' = ReconcileResult(err)
                      ELSE pc' = "onAdd" /\ out' = out
       ELSE /\ pc' = "onAdd"
            /\ UNCHANGED <<op, reqs, out, cluster>>
    /\ ReconcileUnchanged

\* The create path: the handler of the controller is given a copy of the
\* object, and its error is the error of the Reconcile.
OnAdd ==
    /\ pc = "onAdd"
    /\ \E err \in {NoErr, "onAdd failed"} :
          /\ Step("onAdd", op.actionset.finalizers, err)
          /\ out' = ReconcileResult(err)
    /\ pc' = "done"
    /\ UNCHANGED <<op, cluster>>
    /\ ReconcileUnchanged

\* The update path: the handler of the controller, and its error is the
\* error of the Reconcile.
OnUpdate ==
    /\ pc = "onUpdate"
    /\ \E err \in {NoErr, "onUpdate failed"} :
          /\ Step("onUpdate", op.actionset.finalizers, err)
          /\ out' = ReconcileResult(err)
    /\ pc' = "done"
    /\ UNCHANGED <<op, cluster>>
    /\ ReconcileUnchanged

\* A user creates the ActionSet.
CreateActionSet ==
    /\ ~cluster.exists
    /\ \E finalizers \in FinalizerInputs :
          cluster' = ActionSetObject(FALSE, FALSE, finalizers)
    /\ UNCHANGED copyVars
    /\ ReconcileUnchanged

\* A user deletes the ActionSet: the API server removes an object without
\* finalizers and gives any other one its deletion timestamp.
DeleteActionSet ==
    /\ cluster.exists
    /\ ~cluster.deletionTimestamp
    /\ cluster' = IF cluster.finalizers = <<>>
                  THEN NoCluster
                  ELSE [cluster EXCEPT !.deletionTimestamp = TRUE]
    /\ UNCHANGED copyVars
    /\ ReconcileUnchanged

\* The status of the ActionSet is set.
SetStatus ==
    /\ cluster.exists
    /\ ~cluster.status
    /\ cluster' = [cluster EXCEPT !.status = TRUE]
    /\ UNCHANGED copyVars
    /\ ReconcileUnchanged

(***************************************************************************)
(* The specifications.                                                     *)
(***************************************************************************)

NoCall     == [op |-> "none"]
NoEfsBackend == [vault |-> FALSE]
NoLifecycle == [id \in VolIDs \cup FsIDs |-> "none"]
NoReturned == [backend |-> "none", op |-> "none", id |-> "", answer |-> NoErr,
               err |-> NoErr, mutated |-> FALSE, repeated |-> FALSE]

\* A helper is about to be called with one of its inputs.
PureInit ==
    /\ call \in PureCallInputs
    /\ ret = NotReturned
    /\ ebsVolumes = {}
    /\ ebsSnapshots = [id \in SnapIDs |->
                          IF id = "snap-1" THEN SourceSnapshot ELSE NoSnapshot]
    /\ efsFileSystems = {}
    /\ efsRecoveryPoints = {}
    /\ dryRun = FALSE
    /\ providerRegion = "us-east-1"
    /\ last = NoReturned
    /\ pc = "idle"
    /\ op = Nil
    /\ reqs = {}
    /\ out = Nil
    /\ ctxDone = FALSE
    /\ lifecycle = NoLifecycle
    /\ sleeps = 0
    /\ seen = <<>>
    /\ efsBackend = NoEfsBackend
    /\ cluster = NoCluster

PureNext ==
    \/ CallFromRegion
    \/ CallParseMountTargetValue
    \/ CallEncodeDecode
    \/ CallFilterAndGetMountTargetsFromTags
    \/ CallRestoreMetadata
    \/ CallEbsVolumeGet
    \/ CallEfsVolumeGet
    \/ CallEbsVolumesList
    \/ CallEbsSnapshotsList
    \/ CallCreateVolumeTags
    \/ CallCallerTagsAfter
    \/ CallEfsVolumeCreateFromSnapshot
    \/ CallSetTags
    \/ CallSnapshotRestoreTargets
    \/ CallEfsSnapshotCopy
    \/ CallEfsSnapshotsList
    \/ CallEfsSnapshotGet
    \/ CallEbsSnapshotGet
    \/ CallEbsSnapshotCreate
    \/ CallBackoffDuration
    \/ CallGetConfig

PureSpec == PureInit /\ [][PureNext]_vars

\* The provider before any call, with a client that is in dry-run mode or
\* not, and a backend that holds any of the resources.
Init ==
    /\ call = NoCall
    /\ ret = NotReturned
    /\ ebsVolumes \in SUBSET VolIDs
    /\ \E ids \in SUBSET SnapIDs :
          ebsSnapshots = [id \in SnapIDs |->
                             IF id \in ids THEN SourceSnapshot ELSE NoSnapshot]
    /\ efsFileSystems \in SUBSET FsIDs
    /\ efsRecoveryPoints \in SUBSET RpARNs
    /\ dryRun \in BOOLEAN
    /\ providerRegion = "us-east-1"
    /\ last = NoReturned
    /\ pc = "idle"
    /\ op = Nil
    /\ reqs = {}
    /\ out = Nil
    /\ ctxDone = FALSE
    /\ lifecycle = NoLifecycle
    /\ sleeps = 0
    /\ seen = <<>>
    /\ efsBackend = NoEfsBackend
    /\ cluster = NoCluster

Next ==
    \/ EbsVolumeDelete
    \/ EbsSnapshotDelete
    \/ EfsVolumeDelete
    \/ EfsSnapshotDelete

Spec == Init /\ [][Next]_vars

\* SnapshotCopy is about to be called with a source and a destination, by a
\* provider in either region; EC2 holds the source snapshot.
CopyInit ==
    /\ call = NoCall
    /\ ret = NotReturned
    /\ ebsVolumes = {"vol-1"}
    /\ ebsSnapshots = [id \in SnapIDs |->
                          IF id = "snap-1" THEN SourceSnapshot ELSE NoSnapshot]
    /\ efsFileSystems = {}
    /\ efsRecoveryPoints = {}
    /\ dryRun = FALSE
    /\ providerRegion \in Regions
    /\ last = NoReturned
    /\ pc = "call"
    /\ \E from \in FromInputs, to \in ToInputs :
          op = [from |-> from, to |-> to, snapID |-> ""]
    /\ reqs = {}
    /\ out = Nil
    /\ ctxDone = FALSE
    /\ lifecycle = NoLifecycle
    /\ sleeps = 0
    /\ seen = <<>>
    /\ efsBackend = NoEfsBackend
    /\ cluster = NoCluster

CopyNext ==
    \/ SnapshotCopyBegin
    \/ WaitOnSnapshotID
    \/ SnapshotCopyReturn
    \/ SnapshotProgress
    \/ CtxCancel

CopySpec == CopyInit /\ [][CopyNext]_vars

\* A call that waits for a resource is about to be made: SnapshotCopy,
\* VolumeCreate, VolumeCreateFromSnapshot or SnapshotCreateWaitForCompletion
\* of the EBS provider, with a client in dry-run mode or not, or VolumeCreate
\* of the EFS provider.  EC2 holds a volume, a completed snapshot of it and
\* a pending one; EFS holds a file system.
WaitInit ==
    /\ call = NoCall
    /\ ret = NotReturned
    /\ ebsVolumes = {"vol-1"}
    /\ efsFileSystems = {"fs-1"}
    /\ efsRecoveryPoints = {}
    /\ lifecycle = [NoLifecycle EXCEPT !["vol-1"] = "available",
                                       !["fs-1"] = "available"]
    /\ last = NoReturned
    /\ reqs = {}
    /\ out = Nil
    /\ ctxDone = FALSE
    /\ sleeps = 0
    /\ seen = <<>>
    /\ efsBackend = NoEfsBackend
    /\ cluster = NoCluster
    /\ \/ /\ pc = "call"
          /\ \E from \in FromInputs, to \in ToInputs :
                op = [name |-> "SnapshotCopy", from |-> from, to |-> to,
                      snapID |-> ""]
          /\ dryRun = FALSE
          /\ providerRegion \in Regions
          /\ ebsSnapshots =
                [id \in SnapIDs |->
                    IF id = "snap-1" THEN SourceSnapshot ELSE NoSnapshot]
       \/ /\ pc = "VolumeCreate"
          /\ \E volume \in VolumeInputs :
                op = [name |-> "VolumeCreate", volume |-> volume,
                      volID |-> "", created |-> Nil, answer |-> ""]
          /\ dryRun \in BOOLEAN
          /\ providerRegion = "us-east-1"
          /\ ebsSnapshots =
                [id \in SnapIDs |->
                    IF id = "snap-1" THEN SourceSnapshot ELSE NoSnapshot]
       \/ /\ pc = "VolumeCreateFromSnapshot"
          /\ \E snapshot \in SnapshotInputs, tags \in CallerTagInputs :
                op = [name |-> "VolumeCreateFromSnapshot",
                      snapshot |-> snapshot, tags |-> tags,
                      volID |-> "", created |-> Nil, answer |-> ""]
          /\ dryRun \in BOOLEAN
          /\ providerRegion = "us-east-1"
          /\ ebsSnapshots =
                [id \in SnapIDs |->
                    IF id = "snap-1" THEN SourceSnapshot ELSE NoSnapshot]
       \/ /\ pc = "SnapshotCreateWaitForCompletion"
          /\ \E id \in SnapIDs :
                op = [name |-> "SnapshotCreateWaitForCompletion",
                      snap |-> [ID |-> id]]
          /\ dryRun \in BOOLEAN
          /\ providerRegion = "us-east-1"
          /\ ebsSnapshots =
                [id \in SnapIDs |->
                    CASE id = "snap-1" -> SourceSnapshot
                      [] id = "snap-2" ->
                           [SourceSnapshot EXCEPT !.state = "pending"]
                      [] OTHER -> NoSnapshot]
       \/ /\ pc = "EfsVolumeCreate"
          /\ \E volume \in EfsVolumeInputs :
                op = [name |-> "EFS.VolumeCreate", volume |-> volume,
                      created |-> Nil]
          /\ dryRun = FALSE
          /\ providerRegion = "us-east-1"
          /\ ebsSnapshots =
                [id \in SnapIDs |->
                    IF id = "snap-1" THEN SourceSnapshot ELSE NoSnapshot]

\* The steps of the provider's call.
WaitStep ==
    \/ SnapshotCopyBegin
    \/ WaitOnSnapshotID
    \/ SnapshotCopyReturn
    \/ EbsVolumeCreate
    \/ EbsVolumeCreateFromSnapshot
    \/ WaitOnVolume
    \/ EbsVolumeGet
    \/ SnapshotCreateWaitForCompletion
    \/ SnapshotCreateWait
    \/ EfsVolumeCreate
    \/ WaitUntilFileSystemAvailable
    \/ EfsVolumeGet

WaitNext ==
    \/ SnapshotCopyBegin
    \/ WaitOnSnapshotID
    \/ SnapshotCopyReturn
    \/ EbsVolumeCreate
    \/ EbsVolumeCreateFromSnapshot
    \/ WaitOnVolume
    \/ EbsVolumeGet
    \/ SnapshotCreateWaitForCompletion
    \/ SnapshotCreateWait
    \/ EfsVolumeCreate
    \/ WaitUntilFileSystemAvailable
    \/ EfsVolumeGet
    \/ SnapshotProgress
    \/ VolumeProgress
    \/ FileSystemProgress
    \/ CtxCancel

WaitSpec == WaitInit /\ [][WaitNext]_vars

\* The call runs in its goroutine until it returns: a step it can take is
\* taken.  Nothing is assumed of the backend's progress or of the caller's
\* cancellation.
WaitFairSpec == WaitSpec /\ WF_vars(WaitStep)

\* The EFS provider before one of its calls, with what EFS and AWS Backup
\* hold.
EfsInit ==
    /\ call = NoCall
    /\ ret = NotReturned
    /\ ebsVolumes = {}
    /\ ebsSnapshots = [id \in SnapIDs |-> NoSnapshot]
    /\ efsFileSystems = {"fs-1"}
    /\ efsRecoveryPoints = {}
    /\ dryRun = FALSE
    /\ providerRegion = "us-east-1"
    /\ last = NoReturned
    /\ reqs = <<>>
    /\ out = Nil
    /\ ctxDone = FALSE
    /\ sleeps = 0
    /\ seen = <<>>
    /\ cluster = NoCluster
    /\ \/ /\ pc = "EfsSnapshotCreate"
          /\ op \in EfsSnapshotCreateInputs
          /\ lifecycle \in
                 {[id \in FsIDs \cup RpARNs \cup MtIDs \cup JobIDs |->
                      IF id = "fs-1" THEN s ELSE "none"] :
                  s \in {"available", "creating"}}
          /\ \E vault \in BOOLEAN, mountTargets \in MountTargetInputs,
                pageSize \in 1..MaxPageSize :
                efsBackend = [vault |-> vault, mountTargets |-> mountTargets,
                              pageSize |-> pageSize,
                              restoreMetadata |-> EmptyMap, tags |-> <<>>,
                              fileSystems |-> <<>>]
       \/ /\ pc = "EfsVolumeCreateFromSnapshot"
          /\ op \in EfsVolumeCreateFromSnapshotInputs
          /\ lifecycle =
                 [id \in FsIDs \cup RpARNs \cup MtIDs \cup JobIDs |->
                     IF id = "fs-1" THEN "available"
                     ELSE IF id = "arn:rp-1" THEN "COMPLETED" ELSE "none"]
          /\ \E restoreMeta \in RestoreMetadataInputs,
                tags \in RecoveryPointTagInputs,
                pageSize \in 1..MaxPageSize :
                efsBackend = [vault |-> TRUE, mountTargets |-> <<>>,
                              pageSize |-> pageSize,
                              restoreMetadata |-> restoreMeta,
                              tags |-> tags, fileSystems |-> <<>>]
       \/ /\ pc = "EfsVolumesList"
          /\ op \in EfsVolumesListInputs
          /\ lifecycle =
                 [id \in FsIDs \cup RpARNs \cup MtIDs \cup JobIDs |->
                     IF id = "fs-1" THEN "available" ELSE "none"]
          /\ \E fileSystems \in FileSystemListInputs,
                pageSize \in 1..MaxPageSize :
                efsBackend = [vault |-> TRUE, mountTargets |-> <<>>,
                              pageSize |-> pageSize,
                              restoreMetadata |-> EmptyMap, tags |-> <<>>,
                              fileSystems |-> fileSystems]

EfsNext ==
    \/ EfsSnapshotCreate
    \/ EfsSnapshotCreateDescribe
    \/ DescribeMountTargets
    \/ DescribeMountTargetSecurityGroups
    \/ StartBackupJob
    \/ WaitUntilRecoveryPointVisible
    \/ EfsSnapshotCreateSetTags
    \/ RecoveryPointProgress
    \/ EfsVolumeCreateFromSnapshot
    \/ ListTags
    \/ StartRestoreJob
    \/ WaitUntilRestoreComplete
    \/ DescribeRestoreJob
    \/ CreateMountTarget
    \/ WaitUntilMountTargetReady
    \/ EfsRestoreVolumeGet
    \/ RestoreJobProgress
    \/ MountTargetProgress
    \/ EfsVolumesList

EfsSpec == EfsInit /\ [][EfsNext]_vars

\* The reconciler before a Reconcile, with the ActionSet the API server
\* holds, if it holds one.
ReconcileInit ==
    /\ call = NoCall
    /\ ret = NotReturned
    /\ ebsVolumes = {}
    /\ ebsSnapshots = [id \in SnapIDs |-> NoSnapshot]
    /\ efsFileSystems = {}
    /\ efsRecoveryPoints = {}
    /\ dryRun = FALSE
    /\ providerRegion = "us-east-1"
    /\ last = NoReturned
    /\ lifecycle = NoLifecycle
    /\ pc = "Reconcile"
    /\ op = [name |-> "Reconcile", fetched |-> NoCluster,
             actionset |-> NoCluster]
    /\ reqs = <<>>
    /\ out = Nil
    /\ ctxDone = FALSE
    /\ sleeps = 0
    /\ seen = <<>>
    /\ efsBackend = NoEfsBackend
    /\ cluster = NoCluster

ReconcileNext ==
    \/ Reconcile
    \/ OnDelete
    \/ RemoveFinalizer
    \/ AddFinalizer
    \/ OnAdd
    \/ OnUpdate
    \/ CreateActionSet
    \/ DeleteActionSet
    \/ SetStatus

ReconcileSpec == ReconcileInit /\ [][ReconcileNext]_vars

(***************************************************************************)
(* Properties of the pure helpers, under PureSpec.                         *)
(***************************************************************************)

\* s holds no separator.
NoSeparator(s) == IndexOf(s, securityGroupSeperator) = 0

Returns(name) == call.op = name /\ ret # NotReturned

\* C7: FromRegion succeeds for every region the static table lists, with a
\* zone list that is not empty and in which every zone is the region's name
\* followed by one letter of a..f; for every other region it fails, and gives
\* no zone list, never an empty list as a success.
C7_RegionTableClosed ==
    Returns("FromRegion") =>
        /\ call.region \in TableRegions => ~ret.err
        /\ call.region \notin TableRegions => ret.err
        /\ ~ret.err =>
              /\ Len(ret.zones) > 0
              /\ \A i \in 1..Len(ret.zones) :
                    \E letter \in ZoneLetters :
                        ret.zones[i] = call.region \o letter
        /\ ret.err => ret.zones = Nil

\* C7 witness: FromRegion has returned the six zones of us-east-1.
C7_Witness ==
    /\ Returns("FromRegion")
    /\ call.region = "us-east-1"
    /\ ~ret.err
    /\ Len(ret.zones) = 6

\* C8: a subnet ID and a list of security-group IDs, none of them empty and
\* none holding the separator, encoded by mountTargetValue and decoded by
\* parseMountTargetValue, come back as they were: the same subnet ID and the
\* same groups in the same order, no groups for an empty list.
C8_MountTargetRoundTrip ==
    ( /\ Returns("encodeDecode")
      /\ call.subnetID # ""
      /\ NoSeparator(call.subnetID)
      /\ \A i \in 1..Len(call.securityGroups) :
            /\ call.securityGroups[i] # ""
            /\ NoSeparator(call.securityGroups[i]) )
    => /\ ~ret.err
       /\ ret.mt.subnetID = call.subnetID
       /\ ret.mt.securityGroups = call.securityGroups

\* C8 witness: a subnet with two security groups has made the round trip.
C8_Witness ==
    /\ Returns("encodeDecode")
    /\ call.subnetID = "ab"
    /\ call.securityGroups = <<"a", "bb">>
    /\ ~ret.err
    /\ ret.mt.securityGroups = <<"a", "bb">>

\* C9: parseMountTargetValue fails for every value that holds no separator,
\* and filterAndGetMountTargetsFromTags, given a mount-target tag with such a
\* value, fails as a whole: it returns neither tags nor mount targets.
C9_NoSeparatorFails ==
    /\ ( Returns("parseMountTargetValue") /\ NoSeparator(call.value) )
       => ret.err /\ ret.mt = Nil
    /\ ( /\ Returns("filterAndGetMountTargetsFromTags")
         /\ \E k \in DOMAIN call.tags :
               /\ HasPrefix(k, mountTargetKeyPrefix)
               /\ NoSeparator(call.tags[k]) )
       => ret.err /\ ret.filteredTags = Nil /\ ret.mountTargets = Nil

\* C9 witness: the tags hold an ordinary tag, a well-formed mount-target tag
\* and one whose value has no separator, and the call has failed.
C9_Witness ==
    /\ Returns("filterAndGetMountTargetsFromTags")
    /\ DOMAIN call.tags = TagKeyInputs
    /\ call.tags[mountTargetKey("fsmt-1")] = "a+b"
    /\ call.tags[mountTargetKey("fsmt-2")] = "a"
    /\ call.order[1] = mountTargetKey("fsmt-1")
    /\ ret.err

\* C10: whenever parseMountTargetValue succeeds, the mount target it returns
\* has a subnet ID that is not empty.
C10_DecodedSubnetNotEmpty ==
    ( Returns("parseMountTargetValue") /\ ~ret.err )
    => ret.mt.subnetID # ""

\* k starts with the reserved prefix of the mount-target tags.
IsMountTargetKey(k) ==
    /\ Len(k) >= Len(mountTargetKeyPrefix)
    /\ SubSeq(k, 1, Len(mountTargetKeyPrefix)) = mountTargetKeyPrefix

\* k without its first Len(mountTargetKeyPrefix) characters.
WithoutPrefix(k) == SubSeq(k, Len(mountTargetKeyPrefix) + 1, Len(k))

\* C11: when the tags of a recovery point are filtered without an error,
\* every tag whose key lacks the reserved prefix is among the filtered tags
\* with its value, every tag whose key has the prefix is in the mount-target
\* map under the key without the prefix, no key of the filtered tags has the
\* prefix, and no key of the metadata of the restore job has it: that metadata
\* holds the filtered tags and the restore tags only.
C11_FilterPartitionsTags ==
    ( Returns("restoreMetadata") /\ ~ret.err )
    => /\ \A k \in DOMAIN call.tags :
            IF IsMountTargetKey(k)
            THEN /\ WithoutPrefix(k) \in DOMAIN ret.mountTargets
                 /\ k \notin DOMAIN ret.filteredTags
            ELSE /\ k \in DOMAIN ret.filteredTags
                 /\ ret.filteredTags[k] = call.tags[k]
       /\ \A k \in DOMAIN ret.filteredTags :
            k \in DOMAIN call.tags /\ ~IsMountTargetKey(k)
       /\ \A k \in DOMAIN ret.metadata :
            /\ ~IsMountTargetKey(k)
            /\ k \in DOMAIN call.tags \/ k \in DOMAIN efsRestoreTags
       /\ \A k \in DOMAIN ret.filteredTags :
            ret.metadata[k] = call.tags[k]

\* C11 witness: the recovery point has an ordinary tag, a tag whose key holds
\* the prefix in its middle, a mount-target tag and one with an empty
\* mount-target ID; the tags were filtered and the mount targets decoded.
C11_Witness ==
    /\ Returns("restoreMetadata")
    /\ DOMAIN call.tags = RestoreTagKeyInputs
    /\ ~ret.err
    /\ DOMAIN ret.mountTargets = {"", "fsmt-1"}
    /\ ret.mountTargets["fsmt-1"].subnetID = "a"
    /\ Cardinality(DOMAIN ret.filteredTags) = 2

(***************************************************************************)
(* Properties of VolumeDelete and SnapshotDelete, under Spec.              *)
(***************************************************************************)

\* The backend's answer says that the resource does not exist.
AnsweredNotFound(answer) ==
    answer \in {"InvalidVolume.NotFound", "InvalidSnapshot.NotFound",
                "FileSystemNotFound", "ResourceNotFoundException"}

\* The backend's answer is a failure of the backend itself.
AnsweredFailure(answer) ==
    answer \in {"InternalError", "InternalServerError",
                "ServiceUnavailableException"}

\* C1: on both backends a VolumeDelete that the backend answers with "not
\* found" returns success and leaves the backend as it was; so a VolumeDelete
\* that follows a successful one of the same volume, and that the backend
\* does not fail, succeeds too and changes nothing.
C1_VolumeDeleteIdempotent ==
    last.op = "VolumeDelete" =>
        /\ AnsweredNotFound(last.answer) =>
              last.err = NoErr /\ ~last.mutated
        /\ (last.repeated /\ ~AnsweredFailure(last.answer)) =>
              last.err = NoErr /\ ~last.mutated

\* C1 witness: EBS has deleted a volume, and the second VolumeDelete of it,
\* answered "not found", has succeeded.
C1_Witness ==
    /\ last.backend = "EBS"
    /\ last.op = "VolumeDelete"
    /\ last.repeated
    /\ ~dryRun
    /\ last.answer = "InvalidVolume.NotFound"
    /\ last.err = NoErr
    /\ ~last.mutated

\* C2: on both backends a SnapshotDelete that follows a successful
\* SnapshotDelete of the same snapshot, and that the backend answers with
\* "not found", returns success.
C2_SnapshotDeleteIdempotent ==
    ( /\ last.op = "SnapshotDelete"
      /\ last.repeated
      /\ AnsweredNotFound(last.answer) )
    => last.err = NoErr

(***************************************************************************)
(* Properties of ebsStorage.SnapshotCopy, under CopySpec.                  *)
(***************************************************************************)

\* The CopySnapshot requests the call has sent.
CopyRequests == {r \in reqs : r.api = "CopySnapshot"}

\* The snapshots EC2 holds before the call.
SnapshotsBeforeCopy ==
    [id \in SnapIDs |-> IF id = "snap-1" THEN SourceSnapshot ELSE NoSnapshot]

\* C3: the CopySnapshot request of a source with Encrypted=true carries
\* Encrypted=true, whatever the destination's fields are, and no request
\* carries Encrypted=false: the field is true or not set.
C3_CopyKeepsEncryption ==
    \A r \in CopyRequests :
        /\ op.from.Encrypted => r.input.Encrypted = BoolPtr(TRUE)
        /\ r.input.Encrypted # BoolPtr(FALSE)
        /\ r.input.Encrypted \in {Nil, BoolPtr(TRUE)}

\* C3 witness: an encrypted source is copied to a destination that asks for
\* no encryption, and the request carries Encrypted=true.
C3_Witness ==
    /\ op.from.Encrypted
    /\ ~op.to.Encrypted
    /\ \E r \in CopyRequests : r.input.Encrypted = BoolPtr(TRUE)

\* C4: the CopySnapshot request carries a presigned URL if and only if the
\* source's region differs from the destination's; the URL is presigned by
\* a client of the source region, and it is presigned only then; the request
\* is sent by a client of the destination region.
C4_PresignIffCrossRegion ==
    /\ \A r \in CopyRequests :
          /\ r.input.PresignedUrl # Nil <=> op.from.Region # op.to.Region
          /\ r.input.PresignedUrl # Nil =>
                r.input.PresignedUrl.presignedBy = op.from.Region
          /\ r.client = op.to.Region
    /\ \A r \in reqs :
          r.api = "Presign" =>
              r.client = op.from.Region /\ op.from.Region # op.to.Region

\* C4 witness: a copy across regions has been sent with a presigned URL.
C4_Witness ==
    /\ op.from.Region = "us-east-1"
    /\ op.to.Region = "us-west-2"
    /\ \E r \in CopyRequests :
          /\ r.client = "us-west-2"
          /\ r.input.PresignedUrl # Nil
          /\ r.input.PresignedUrl.presignedBy = "us-east-1"

\* C5: with a destination whose region is empty or whose ID is not empty the
\* call returns an error and never issues a request (no presign, copy, tag
\* or describe), and EC2 holds what it held before.
C5_InvalidDestinationRejected ==
    (op.to.Region = "" \/ op.to.ID # "") =>
        /\ pc \in {"call", "done"}
        /\ reqs = {}
        /\ ebsSnapshots = SnapshotsBeforeCopy
        /\ pc = "done" => out.kind = "error"

\* C5 witness: a destination with a region and an ID has been rejected.
C5_Witness ==
    /\ pc = "done"
    /\ op.to.Region = "us-west-2"
    /\ op.to.ID = "snap-9"
    /\ out.kind = "error"

\* C6: the snapshot a successful call returns has the source's volume, the
\* source's size and the destination's region, whatever EC2 reports for the
\* copy, and its ID is the one EC2 gave the copy.
C6_CopyReturnsSourceVolume ==
    (pc = "done" /\ out.kind = "ok") =>
        /\ out.snapshot.Volume = op.from.Volume
        /\ out.snapshot.Size = op.from.Size
        /\ out.snapshot.Region = op.to.Region
        /\ out.snapshot.ID = op.snapID
        /\ out.snapshot.ID # op.from.ID
        /\ ebsSnapshots[out.snapshot.ID].exists

\* C6 witness: a call has succeeded for a copy of which EC2 reports another
\* volume and another size, by a provider of another region.
C6_Witness ==
    /\ pc = "done"
    /\ out.kind = "ok"
    /\ ebsSnapshots[op.snapID].volumeId # op.from.Volume.ID
    /\ ebsSnapshots[op.snapID].size # op.from.Size
    /\ providerRegion # op.to.Region


\* The CreateTags requests of the call, and its describes of the copy.
CopyTagRequests      == {r \in reqs : r.api = "CreateTags"}
CopyDescribeRequests == {r \in reqs : r.api = "DescribeSnapshots"}

\* C36: SnapshotCopy sends at most one CreateTags, after CopySnapshot was
\* accepted, for the ID of the copy and with every tag of the source and its
\* value; it describes the copy only after the tags are set; it fetches the
\* copy only after a describe of the wait has shown it completed; a describe
\* of the wait that fails or shows an error ends the call with an error; and
\* a call that succeeds has set the tags, has seen the copy completed and
\* returns the copy it has fetched.
C36_CopyTagsThenWaits ==
    /\ Cardinality(CopyTagRequests) <= 1
    /\ \A r \in CopyTagRequests :
          /\ \E c \in CopyRequests : c.api = "CopySnapshot"
          /\ Len(r.input.Resources) = 1
          /\ ~SnapshotsBeforeCopy[r.input.Resources[1]].exists
          /\ ebsSnapshots[r.input.Resources[1]].exists
          /\ \A i \in 1..Len(op.from.Tags) :
                /\ op.from.Tags[i].Key \in DOMAIN r.input.Tags
                /\ r.input.Tags[op.from.Tags[i].Key] = op.from.Tags[i].Value
    /\ CopyDescribeRequests # {} =>
          /\ CopyTagRequests # {}
          /\ \A r \in CopyTagRequests :
                /\ r.input.Resources[1] = op.snapID
                /\ \A k \in DOMAIN r.input.Tags :
                      /\ k \in DOMAIN ebsSnapshots[op.snapID].tags
                      /\ ebsSnapshots[op.snapID].tags[k] = r.input.Tags[k]
          /\ \A r \in CopyDescribeRequests :
                r.input.SnapshotIds = <<op.snapID>>
    /\ pc = "get" =>
          /\ seen # <<>>
          /\ seen[Len(seen)] = "completed"
    /\ \A i \in 1..Len(seen) :
          seen[i] \notin {"pending", "completed"}
              => /\ i = Len(seen)
                 /\ pc = "done"
                 /\ out.kind = "error"
    /\ ( pc = "done" /\ out.kind = "ok" ) =>
          /\ CopyTagRequests # {}
          /\ seen # <<>>
          /\ seen[Len(seen)] = "completed"
          /\ \A i \in 1..Len(seen) - 1 : seen[i] = "pending"
          /\ out.snapshot.ID = op.snapID
          /\ \A i \in 1..Len(op.from.Tags) :
                \E j \in 1..Len(out.snapshot.Tags) :
                   out.snapshot.Tags[j] = op.from.Tags[i]

\* C36 witness: a copy of a snapshot with a tag has succeeded after the call
\* has slept on the pending copy.
C36_Witness ==
    /\ pc = "done"
    /\ out.kind = "ok"
    /\ op.from.Tags # <<>>
    /\ sleeps > 0
    /\ seen[1] = "pending"

(***************************************************************************)
(* Properties of the calls that wait, under WaitSpec and WaitFairSpec.     *)
(***************************************************************************)

\* The call in progress is one of the EBS provider.
EbsCall ==
    op.name \in {"SnapshotCopy", "VolumeCreate", "VolumeCreateFromSnapshot",
                 "SnapshotCreateWaitForCompletion"}

\* The call in progress creates an EBS volume.
EbsVolumeCall == op.name \in {"VolumeCreate", "VolumeCreateFromSnapshot"}

\* The call in progress waits for an EBS snapshot.
EbsSnapshotCall ==
    op.name \in {"SnapshotCopy", "SnapshotCreateWaitForCompletion"}

\* The state in which a described resource is ready.
ReadyState == IF EbsVolumeCall THEN "available" ELSE "completed"

\* The call has returned an error.
ReturnedError == pc = "done" /\ out.kind = "error"

\* C12: in the wait loops of the EBS provider, a describe that observes the
\* resource in state error is the last one of the wait: the call has returned
\* an error, and it has slept once after each describe before that one and
\* not after it.  When the first describe observes the resource ready, the
\* wait is over after that one describe and no sleep; the call that is only
\* a wait has returned success.
C12_PollTermination ==
    EbsCall =>
        /\ \A i \in 1..Len(seen) :
              seen[i] = "error" =>
                  /\ i = Len(seen)
                  /\ ReturnedError
                  /\ sleeps = i - 1
        /\ ( Len(seen) > 0 /\ seen[1] = ReadyState ) =>
              /\ Len(seen) = 1
              /\ sleeps = 0
              /\ pc \notin WaitPCs
              /\ op.name = "SnapshotCreateWaitForCompletion" =>
                     out = Completed

\* C12 witness: VolumeCreate has described its volume twice, in creation and
\* then in state error, has slept once and has returned an error.
C12_Witness ==
    /\ op.name = "VolumeCreate"
    /\ seen = <<"creating", "error">>
    /\ sleeps = 1
    /\ ReturnedError

\* C13: a call of the EBS provider whose context is cancelled while it waits
\* does not go on past its wait and returns nothing but an error; and it does
\* return.
C13_CancelNeverSucceeds ==
    /\ []( ( EbsCall /\ ctxDone ) =>
             ( pc \in WaitPCs \/ ReturnedError ) )
    /\ ( ( EbsCall /\ ctxDone ) ~> ( pc = "done" ) )

\* C13 witness: SnapshotCreateWaitForCompletion has found the snapshot
\* pending, its context was cancelled as it slept, and it has returned an
\* error.
C13_Witness ==
    /\ op.name = "SnapshotCreateWaitForCompletion"
    /\ ctxDone
    /\ Len(seen) > 0
    /\ seen[1] = "pending"
    /\ \A i \in 1..Len(seen) : seen[i] # "completed"
    /\ ReturnedError

\* C14: in a wait of the EBS provider, a describe that has failed, or has
\* not found the resource, leaves the call waiting as long as its context
\* is not cancelled: only a resource observed in state error or a cancelled
\* context ends the wait with an error.
C14_DescribeFailureKeepsWaiting ==
    ( /\ EbsCall
      /\ ~ctxDone
      /\ Len(seen) > 0
      /\ seen[Len(seen)] \notin {"error", ReadyState} )
    => pc \in WaitPCs

\* C15: a call of the EBS provider whose client is not in dry-run mode
\* returns success only after the last describe of its wait has observed the
\* resource ready: the volume VolumeCreate or VolumeCreateFromSnapshot
\* returns is available, the snapshot SnapshotCreateWaitForCompletion or
\* SnapshotCopy has waited for is completed.  Once a describe has observed
\* the resource in state error the call has returned an error.
C15_ReadyBeforeReturn ==
    ( EbsCall /\ ~dryRun ) =>
        /\ ( pc = "done" /\ out.kind = "ok" ) =>
              /\ Len(seen) > 0
              /\ seen[Len(seen)] = ReadyState
              /\ EbsVolumeCall =>
                     /\ out.volume.ID = op.volID
                     /\ lifecycle[op.volID] = "available"
              /\ op.name = "SnapshotCopy" =>
                     ebsSnapshots[op.snapID].state = "completed"
              /\ op.name = "SnapshotCreateWaitForCompletion" =>
                     ebsSnapshots[op.snap.ID].state = "completed"
        /\ ( \E i \in 1..Len(seen) : seen[i] = "error" ) => ReturnedError

\* C15 witness: VolumeCreateFromSnapshot has seen its volume in creation,
\* then available, and has returned it.
C15_Witness ==
    /\ op.name = "VolumeCreateFromSnapshot"
    /\ ~dryRun
    /\ seen = <<"creating", "available">>
    /\ pc = "done"
    /\ out.kind = "ok"
    /\ out.volume.ID = "vol-2"

\* C16: the volume VolumeCreate returns, on either backend, has the ID the
\* backend gave to the resource this call has created.
C16_CreateReturnsCreated ==
    ( /\ op.name \in {"VolumeCreate", "EFS.VolumeCreate"}
      /\ pc = "done"
      /\ out.kind = "ok" )
    => /\ op.created # Nil
       /\ op.name = "VolumeCreate" => out.volume.ID = op.created.VolumeId
       /\ op.name = "EFS.VolumeCreate" =>
              out.volume.ID = op.created.FileSystemId

\* The volume lacks what VolumeCreate needs: a zone, a type, an IOPS value
\* for type io1 and none for another type.
InvalidVolume(volume) ==
    \/ volume.Az = ""
    \/ volume.VolumeType = ""
    \/ volume.VolumeType = VolumeTypeIo1 /\ volume.Iops = 0
    \/ volume.VolumeType # VolumeTypeIo1 /\ volume.Iops # 0

\* C17: VolumeCreate of the EBS provider called with a volume that lacks a
\* zone or a type, or has type io1 and no IOPS value, or another type and an
\* IOPS value, returns an error and sends no request.
C17_CreateValidatesFirst ==
    ( /\ op.name = "VolumeCreate"
      /\ InvalidVolume(op.volume)
      /\ pc # "VolumeCreate" )
    => /\ ReturnedError
       /\ reqs = {}

\* C18: a CreateVolume request of VolumeCreate or VolumeCreateFromSnapshot
\* has an IOPS value exactly if its volume type is io1, and then it is the
\* IOPS value of the volume the call was given.
C18_IopsIffIo1 ==
    EbsVolumeCall =>
        \A r \in reqs :
            r.api = "CreateVolume" =>
                LET volume == IF op.name = "VolumeCreate"
                              THEN op.volume ELSE op.snapshot.Volume
                IN  /\ r.input.VolumeType = volume.VolumeType
                    /\ IF volume.VolumeType = "io1"
                       THEN r.input.Iops = [ptr |-> volume.Iops]
                       ELSE r.input.Iops = Nil

\* C18 witness: VolumeCreate was given a volume of type gp2 with an IOPS
\* value, and has sent CreateVolume.
C18_Witness ==
    /\ op.name = "VolumeCreate"
    /\ op.volume.VolumeType = "gp2"
    /\ op.volume.Iops = 100
    /\ \E r \in reqs : r.api = "CreateVolume"

\* C19: VolumeCreate and VolumeCreateFromSnapshot of a client in dry-run
\* mode whose CreateVolume was answered with the dry-run answer return
\* success, have waited for nothing, and have created no volume.
C19_DryRunCreateSucceeds ==
    ( /\ EbsVolumeCall
      /\ dryRun
      /\ op.answer = "DryRunOperation"
      /\ pc = "done" )
    => /\ out.kind = "ok"
       /\ seen = <<>>
       /\ ebsVolumes = {"vol-1"}

\* The call is in waitOnVolume or in waitOnSnapshotID.
InEbsWait == EbsCall /\ pc \in {"wait", "waitOnVolume", "waitOnSnapshotID"}

\* EC2 holds the resource the call waits for in a state that does not
\* change any more.
ResourceTerminal ==
    CASE op.name \in {"VolumeCreate", "VolumeCreateFromSnapshot"} ->
             /\ op.volID \in ebsVolumes
             /\ lifecycle[op.volID] \in {"available", "error"}
      [] op.name = "SnapshotCopy" ->
             ebsSnapshots[op.snapID].state \in {"completed", "error"}
      [] op.name = "SnapshotCreateWaitForCompletion" ->
             /\ ebsSnapshots[op.snap.ID].exists
             /\ ebsSnapshots[op.snap.ID].state \in {"completed", "error"}
      [] OTHER -> FALSE

\* C37: a wait of the EBS provider whose resource EC2 holds in a terminal
\* state returns, at its next describe; and a wait returns only when its context is cancelled or
\* its last describe has failed, has not found the one resource, or has
\* shown a terminal state: after a describe that shows the resource pending
\* or in creation it goes on, however often it has slept.
C37_WaitLiveness ==
    /\ ( ( InEbsWait /\ ResourceTerminal ) ~> ~InEbsWait )
    /\ [][ ( InEbsWait /\ ~InEbsWait' ) =>
              \/ ctxDone
              \/ /\ seen' # <<>>
                 /\ seen'[Len(seen')] \notin {"pending", "creating"}
              ]_vars
    /\ [][ ( InEbsWait /\ ResourceTerminal /\ seen' # seen ) =>
              ~InEbsWait' ]_vars

\* C37 witness: SnapshotCreateWaitForCompletion, its context not cancelled,
\* has slept as often as it found the snapshot pending, has then found it
\* completed and has returned.
C37_Witness ==
    /\ op.name = "SnapshotCreateWaitForCompletion"
    /\ ~ctxDone
    /\ pc = "done"
    /\ sleeps = MaxSleeps
    /\ Len(seen) = MaxSleeps + 1
    /\ \A i \in 1..MaxSleeps : seen[i] = "pending"
    /\ seen[Len(seen)] = "completed"
    /\ out.kind = "ok"

\* The snapshot lacks what tells where its volume was: the volume, or the
\* volume's type, zone or list of tags.
MissingPlacement(snapshot) ==
    \/ snapshot.Volume = Nil
    \/ snapshot.Volume.VolumeType = ""
    \/ snapshot.Volume.Az = ""
    \/ snapshot.Volume.Tags = NilTags

\* C22: VolumeCreateFromSnapshot of the EBS provider called with a snapshot
\* that has no volume, or whose volume has no type, no zone or a nil list
\* of tags, returns an error and has sent no request.
C22_FromSnapshotValidatesFirst ==
    ( /\ op.name = "VolumeCreateFromSnapshot"
      /\ MissingPlacement(op.snapshot)
      /\ pc # "VolumeCreateFromSnapshot" )
    => /\ ReturnedError
       /\ reqs = {}

\* C22 witness: the snapshot's volume has a type and a zone and a nil list
\* of tags, and the call has returned an error without a request.
C22_Witness ==
    /\ op.name = "VolumeCreateFromSnapshot"
    /\ op.snapshot.Volume # Nil
    /\ op.snapshot.Volume.VolumeType = "gp2"
    /\ op.snapshot.Volume.Az = "us-east-1a"
    /\ op.snapshot.Volume.Tags = NilTags
    /\ ReturnedError
    /\ reqs = {}

(***************************************************************************)
(* Properties of VolumeGet, under PureSpec.                                *)
(***************************************************************************)

\* C20: VolumeGet of the EBS provider returns an error unless the answer to
\* the describe holds exactly one volume, and then returns that volume.
\* VolumeGet of the EFS provider returns an error unless exactly one file
\* system of the answer is available, and then returns that file system.
C20_VolumeGetNeverPicks ==
    /\ Returns("ebsStorage.VolumeGet") =>
          IF call.dvo.err = NoErr /\ Len(call.dvo.Volumes) = 1
          THEN /\ ret.kind = "ok"
               /\ ret.volume.ID = call.dvo.Volumes[1].VolumeId
          ELSE ret.kind = "error"
    /\ Returns("efs.VolumeGet") =>
          LET availables ==
                  {i \in 1..Len(call.descs.FileSystems) :
                      call.descs.FileSystems[i].LifeCycleState = "available"}
          IN  IF call.descs.err = NoErr /\ Cardinality(availables) = 1
              THEN /\ ret.result.kind = "ok"
                   /\ \E i \in availables :
                         /\ ret.desc = call.descs.FileSystems[i]
                         /\ ret.result.volume.ID =
                                call.descs.FileSystems[i].FileSystemId
              ELSE ret.result.kind = "error"

(***************************************************************************)
(* Properties of the calls that list, tag and describe, under PureSpec.    *)
(***************************************************************************)

\* The call is a list of volumes or of snapshots by the EBS provider.
EbsListCall ==
    call.op \in {"ebsStorage.VolumesList", "ebsStorage.SnapshotsList"}

\* C21: the describe request of VolumesList and of SnapshotsList has one
\* filter per requested tag, whose name is the tag's key and whose one value
\* is the tag's value, and no other filter.  With no tag requested it has no
\* filter, and every resource of the answer is returned.
C21_ListFilterIsConjunction ==
    ( EbsListCall /\ ret # NotReturned ) =>
        LET filters == ret.requests[1].input.Filters
        IN  /\ Len(ret.requests) = 1
            /\ Len(filters) = Cardinality(DOMAIN call.tags)
            /\ \A k \in DOMAIN call.tags :
                  \E i \in 1..Len(filters) :
                      filters[i] = [Name |-> k, Values |-> <<call.tags[k]>>]
            /\ ( call.tags = EmptyMap /\ ret.result.kind = "ok" ) =>
                  Len(ret.result.list) =
                      IF call.op = "ebsStorage.VolumesList"
                      THEN Len(call.dvo.Volumes)
                      ELSE Len(call.dso.Snapshots)

\* The keys of a list of tags.
KeysOf(kvs) == {kvs[i].Key : i \in 1..Len(kvs)}

\* C23: the tags VolumeCreateFromSnapshot of the EBS provider creates the
\* volume with hold every tag of the call with the value of the call, and
\* every key of the snapshot's volume that the call does not give, with a
\* value the snapshot's volume has for it; the only other tags are the
\* standard ones.
C23_CallerTagsWin ==
    ( Returns("createVolumeTags") /\ ret.kind = "ok" ) =>
        LET caller == IF call.tags = Nil THEN EmptyMap ELSE call.tags
        IN  /\ \A k \in DOMAIN caller :
                  k \in DOMAIN ret.tags /\ ret.tags[k] = caller[k]
            /\ \A k \in KeysOf(call.source) \ DOMAIN caller :
                  /\ k \in DOMAIN ret.tags
                  /\ \E i \in 1..Len(call.source) :
                        /\ call.source[i].Key = k
                        /\ ret.tags[k] = call.source[i].Value
            /\ DOMAIN ret.tags \subseteq
                   DOMAIN caller \cup KeysOf(call.source)
                                 \cup DOMAIN GetTags(EmptyMap)

\* C23 witness: tags {A: 1, B: 2} of the call and tags B: 3, C: 4 of the
\* snapshot's volume give A: 1, B: 2, C: 4.
C23_Witness ==
    /\ Returns("createVolumeTags")
    /\ call.tags = ("A" :> "1") @@ ("B" :> "2")
    /\ call.source = <<[Key |-> "B", Value |-> "3"],
                       [Key |-> "C", Value |-> "4"]>>
    /\ ret.kind = "ok"
    /\ ret.tags["A"] = "1"
    /\ ret.tags["B"] = "2"
    /\ ret.tags["C"] = "4"

\* C24: the metadata of the restore job efs.VolumeCreateFromSnapshot starts
\* holds every tag of the call, with the value of the call.
C24_RestoreHonoursCallerTags ==
    ( Returns("efs.VolumeCreateFromSnapshot") /\ ret.err = NoErr ) =>
        LET metadata == ret.requests[1].input.Metadata
        IN  \A k \in DOMAIN call.tags :
                k \in DOMAIN metadata /\ metadata[k] = call.tags[k]

\* C25: SetTags called with a resource that is neither a volume nor a
\* snapshot returns an error and sends no request; called with a volume or
\* a snapshot it sends one tagging request, for the ID of that resource.
C25_SetTagsRejectsUnknown ==
    Returns("SetTags") =>
        IF call.resource.type \in {"*blockstorage.Volume",
                                   "*blockstorage.Snapshot"}
        THEN /\ Len(ret.requests) = 1
             /\ LET input == ret.requests[1].input
                IN  CASE ret.requests[1].api = "CreateTags" ->
                             input.Resources = <<call.resource.ID>>
                      [] ret.requests[1].api = "efs.CreateTags" ->
                             input.FileSystemId = call.resource.ID
                      [] ret.requests[1].api = "backup.TagResource" ->
                             input.ResourceArn = call.resource.ID
                      [] OTHER -> FALSE
        ELSE /\ ret.err # NoErr
             /\ ret.requests = <<>>

\* C26: SnapshotRestoreTargets of the EBS provider, for a snapshot whose
\* volume is known with its type, zone and tags and whose region the static
\* table lists, returns no error, global false, and the zones of the table
\* for the snapshot's region under that region and nothing else; for any
\* other snapshot it returns an error and no map.
C26_RestoreTargetsOwnRegion ==
    Returns("SnapshotRestoreTargets") =>
        /\ ~ret.global
        /\ IF /\ ~MissingPlacement(call.snapshot)
              /\ call.snapshot.Region \in TableRegions
           THEN /\ ret.err = NoErr
                /\ DOMAIN ret.regionsAndZones = {call.snapshot.Region}
                /\ ret.regionsAndZones[call.snapshot.Region] =
                       staticRegionToZones(call.snapshot.Region).zones
                /\ Len(ret.regionsAndZones[call.snapshot.Region]) > 0
           ELSE /\ ret.err # NoErr
                /\ ret.regionsAndZones = Nil

\* C26 witness: a snapshot of ap-south-1 with its volume's metadata is
\* given the two zones of ap-south-1.
C26_Witness ==
    /\ Returns("SnapshotRestoreTargets")
    /\ call.snapshot.Region = "ap-south-1"
    /\ ret.err = NoErr
    /\ ~ret.global
    /\ ret.regionsAndZones =
           ("ap-south-1" :> <<"ap-south-1a", "ap-south-1b">>)

\* C27: SnapshotCopy and SnapshotsList of the EFS provider return no result
\* and the error "Not implemented", and send no request.
C27_EfsUnsupported ==
    /\ Returns("efs.SnapshotCopy") =>
          /\ ret.result.kind = "error"
          /\ ret.result.err = "Not implemented"
          /\ ret.result.snapshot = Nil
          /\ ret.requests = <<>>
    /\ Returns("efs.SnapshotsList") =>
          /\ ret.result.kind = "error"
          /\ ret.result.err = "Not implemented"
          /\ ret.result.list = <<>>
          /\ ret.requests = <<>>

\* C27 witness: SnapshotsList of the EFS provider, asked for two tags, has
\* returned "Not implemented".
C27_Witness ==
    /\ Returns("efs.SnapshotsList")
    /\ Cardinality(DOMAIN call.tags) = 2
    /\ ret.result.err = "Not implemented"

\* C28: SnapshotGet of the EFS provider returns a snapshot or an error,
\* never neither; for a recovery point whose description has no resource
\* ARN it returns an error.
C28_SnapshotGetNeverNilNil ==
    Returns("efs.SnapshotGet") =>
        /\ ret.result.snapshot # Nil \/ ret.result.err # NoErr
        /\ ( call.resp.err = NoErr /\ call.resp.ResourceArn = Nil ) =>
              ret.result.err # NoErr

\* C29: the tags of the snapshot SnapshotGet and SnapshotCreate of the EBS
\* provider return hold each tag key of the snapshot in EC2 once.
C29_SnapshotTagKeysUnique ==
    ( /\ call.op \in {"ebsStorage.SnapshotGet", "ebsStorage.SnapshotCreate"}
      /\ ret # NotReturned
      /\ ret.result.kind = "ok" )
    => LET tags == ret.result.snapshot.Tags
       IN  /\ \A k \in DOMAIN ret.snap.Tags :
                 Cardinality({i \in 1..Len(tags) : tags[i].Key = k}) = 1
           /\ \A i, j \in 1..Len(tags) : tags[i] = tags[j] => i = j

\* C30: the k-th sleep of the snapshot wait lasts the lesser of one second
\* times two to the power of k - 1 and ten seconds; the intervals never
\* decrease and never exceed ten seconds.
C30_BackoffSchedule ==
    ( Returns("Backoff.Duration") /\ call.b = snapWaitBackoff ) =>
        /\ Len(ret.intervals) = call.n
        /\ \A k \in 1..Len(ret.intervals) :
              /\ ret.intervals[k] =
                     IF 1000 * 2 ^ (k - 1) < 10000
                     THEN 1000 * 2 ^ (k - 1) ELSE 10000
              /\ ret.intervals[k] <= 10000
              /\ k > 1 => ret.intervals[k - 1] <= ret.intervals[k]

\* C30 witness: the first six sleeps of the snapshot wait last 1, 2, 4, 8,
\* 10 and 10 seconds.
C30_Witness ==
    /\ Returns("Backoff.Duration")
    /\ call.b = snapWaitBackoff
    /\ ret.intervals = <<1000, 2000, 4000, 8000, 10000, 10000>>

\* C39: when VolumeCreateFromSnapshot of the EBS provider has returned, with
\* a volume or with an error, the map of tags its caller has passed holds
\* the pairs it held before the call.
C39_CallerTagsUnchanged ==
    ( call.op = "callerTagsAfter" /\ ret # NotReturned /\ ret.kind # "panic" )
    => ret.tags = call.tags


\* What CreateSnapshot has answered is a snapshot EC2 has created.
SnapshotCreatedInBackend(snap) == snap # Nil /\ snap.SnapshotId # ""

\* C38: when SnapshotCreate of the EBS provider returns an error, be it for
\* CreateSnapshot or for the region of the volume's zone, EC2 has created no
\* snapshot for the call.
C38_SnapshotCreateFailureAtomic ==
    ( /\ call.op = "ebsStorage.SnapshotCreate"
      /\ ret # NotReturned
      /\ ret.result.kind = "error" )
    => ~SnapshotCreatedInBackend(ret.snap)


(***************************************************************************)
(* Properties of the provider's configuration, under PureSpec.             *)
(***************************************************************************)

\* C31: GetConfig fails with an error that names the first of region,
\* AWS_ACCESS_KEY_ID and AWS_SECRET_ACCESS_KEY that the config map lacks,
\* and succeeds, returning the configured region, exactly when the map has
\* all three.
C31_GetConfigNamesMissingKey ==
    Returns("GetConfig") =>
        LET required == <<ConfigRegion, AccessKeyID, SecretAccessKey>>
            absent   == {i \in 1..3 : required[i] \notin DOMAIN call.config}
        IN  IF absent = {}
            THEN /\ ret.err = NoErr
                 /\ ret.region = call.config[ConfigRegion]
                 /\ ret.awsConfig # Nil
            ELSE LET first == CHOOSE i \in absent :
                                  \A j \in absent : i <= j
                 IN  /\ ret.err # NoErr
                     /\ HasPrefix(ret.err, required[first] \o " required")
                     /\ ret.region = ""
                     /\ ret.awsConfig = Nil

\* C31 witness: a config map with a region and no key at all is refused for
\* the missing access key.
C31_Witness ==
    /\ Returns("GetConfig")
    /\ DOMAIN call.config = {ConfigRegion}
    /\ ret.err = "AWS_ACCESS_KEY_ID required for storage type EBS"


(***************************************************************************)
(* Properties of the calls of the EFS provider, under EfsSpec.             *)
(***************************************************************************)

\* The positions of the requests of the call to one API.
Positions(api) == {i \in 1..Len(reqs) : reqs[i].api = api}

\* C32: efs.SnapshotCreate makes the vault first; a vault that exists
\* already lets it go on, and any other error of the vault ends it with an
\* error and no backup job.  The mount targets are listed and encoded before
\* the backup job is started with them; the tags of the mount targets are
\* written to the recovery point only after a describe has found it; and
\* nothing is described after that, whatever state the recovery point is in.
C32_SnapshotCreateStepOrder ==
    ( pc # "EfsSnapshotCreate" /\ op.name = "EFS.SnapshotCreate" ) =>
        /\ Positions("backup.CreateBackupVault") = {1}
        /\ ( Len(reqs) = 1 /\ reqs[1].err \in {NoErr, "AlreadyExistsException"} )
               => pc = "getFileSystemDescriptionWithID"
        /\ reqs[1].err \notin {NoErr, "AlreadyExistsException"}
               => /\ pc = "done"
                  /\ out.kind = "error"
                  /\ Len(reqs) = 1
        /\ \A j \in Positions("backup.StartBackupJob") :
              /\ \A i \in Positions("efs.DescribeMountTargets")
                          \cup Positions("efs.DescribeMountTargetSecurityGroups") :
                    i < j
              /\ Positions("efs.DescribeMountTargets") # {}
              /\ \A n \in 1..Len(efsBackend.mountTargets) :
                    LET mt == efsBackend.mountTargets[n]
                    IN  /\ mountTargetKey(mt.MountTargetId.ptr)
                               \in DOMAIN reqs[j].input.RecoveryPointTags
                        /\ reqs[j].input.RecoveryPointTags[
                               mountTargetKey(mt.MountTargetId.ptr)]
                             = mountTargetValue(mt.SubnetId.ptr,
                                                mt.SecurityGroups)
        /\ Cardinality(Positions("backup.StartBackupJob")) <= 1
        /\ \A t \in Positions("backup.TagResource") :
              /\ t > 1
              /\ reqs[t - 1].api = "backup.DescribeRecoveryPoint"
              /\ reqs[t - 1].err = NoErr
              /\ \A j \in Positions("backup.StartBackupJob") :
                    /\ j < t
                    /\ \A k \in DOMAIN reqs[t].input.Tags :
                          reqs[j].input.RecoveryPointTags[k]
                              = reqs[t].input.Tags[k]
        /\ \A d \in Positions("backup.DescribeRecoveryPoint") :
              ( reqs[d].err = NoErr /\ d < Len(reqs) )
                  => reqs[d + 1].api = "backup.TagResource"
        /\ ( pc = "done" /\ out.kind = "ok" )
               => /\ reqs[Len(reqs)].api = "backup.TagResource"
                  /\ reqs[Len(reqs)].err = NoErr
                  /\ out.snapshot.ID = reqs[Len(reqs)].input.ResourceArn

\* C32 witness: SnapshotCreate has returned a snapshot of a file system with
\* two mount targets whose vault existed already, after it had to wait for
\* the recovery point, and the recovery point is not completed.
C32_Witness ==
    /\ op.name = "EFS.SnapshotCreate"
    /\ pc = "done"
    /\ out.kind = "ok"
    /\ reqs[1].err = "AlreadyExistsException"
    /\ Len(efsBackend.mountTargets) = 2
    /\ sleeps > 0
    /\ lifecycle[out.snapshot.ID] = "PARTIAL"


\* The keys of the recovery point's restore metadata and tags that encode a
\* mount target.
SavedMountTargetKeys ==
    {k \in DOMAIN efsBackend.restoreMetadata
           \cup {efsBackend.tags[i].Key : i \in 1..Len(efsBackend.tags)} :
        HasPrefix(k, mountTargetKeyPrefix)}

\* C33: efs.VolumeCreateFromSnapshot creates no mount target before a
\* describe has shown the restore job completed, and none for a job that
\* has failed.  Every create is for the new file system, no mount target is
\* created twice, and a create that fails ends the call with an error at
\* once.  No created mount target is described before the last create.  The
\* call succeeds only after one create per saved mount target and after a
\* describe has shown each created mount target available.
C33_RestoreMountTargetOrder ==
    op.name = "EFS.VolumeCreateFromSnapshot" =>
        LET creates == Positions("efs.CreateMountTarget")
            waits   == Positions("efs.DescribeMountTargets")
        IN  /\ \A c \in creates :
                  /\ \E d \in Positions("backup.DescribeRestoreJob") :
                        /\ d < c
                        /\ reqs[d].err = NoErr
                        /\ reqs[d].state = "COMPLETED"
                  /\ lifecycle[op.restoreID] = "COMPLETED"
                  /\ reqs[c].input.FileSystemId = "fs-2"
                  /\ \A w \in waits : c < w
                  /\ \A c2 \in creates :
                        reqs[c2].input.SubnetId = reqs[c].input.SubnetId
                            => c2 = c
                  /\ reqs[c].err # NoErr
                        => /\ c = Len(reqs)
                           /\ pc = "done"
                           /\ out.kind = "error"
            /\ ( pc = "done" /\ out.kind = "ok" ) =>
                  /\ Cardinality(creates) = Cardinality(SavedMountTargetKeys)
                  /\ \A k \in SavedMountTargetKeys :
                        \E c \in creates :
                           mountTargetValue(reqs[c].input.SubnetId,
                                            reqs[c].input.SecurityGroups)
                               = Union(efsBackend.restoreMetadata,
                                       KeyValueToMap(efsBackend.tags))[k]
                  /\ Len(op.created) = Cardinality(creates)
                  /\ \A i \in 1..Len(op.created) :
                        \E w \in waits :
                           /\ reqs[w].input.MountTargetId
                                  = op.created[i].MountTargetId.ptr
                           /\ reqs[w].err = NoErr
                           /\ reqs[w].state = "available"

\* C33 witness: a restore of a recovery point that saved two mount targets
\* has returned the new file system, after it had to wait for one of them.
C33_Witness ==
    /\ op.name = "EFS.VolumeCreateFromSnapshot"
    /\ pc = "done"
    /\ out.kind = "ok"
    /\ Cardinality(Positions("efs.CreateMountTarget")) = 2
    /\ \E w \in Positions("efs.DescribeMountTargets") :
          reqs[w].state = "creating"


\* The request the call in progress fetches a list with, page by page, the
\* list it fetches, and where the call stands while it fetches.
PageApi ==
    CASE op.name = "EFS.VolumesList" -> "efs.DescribeFileSystems"
      [] op.name = "EFS.VolumeCreateFromSnapshot" -> "backup.ListTags"
      [] op.name = "EFS.SnapshotCreate" -> "efs.DescribeMountTargets"
PagedItems ==
    CASE op.name = "EFS.VolumesList" -> efsBackend.fileSystems
      [] op.name = "EFS.VolumeCreateFromSnapshot" -> efsBackend.tags
      [] op.name = "EFS.SnapshotCreate" -> efsBackend.mountTargets
PageLoopPc ==
    CASE op.name = "EFS.VolumesList" -> "EfsVolumesList"
      [] op.name = "EFS.VolumeCreateFromSnapshot" -> "ListTags"
      [] op.name = "EFS.SnapshotCreate" -> "DescribeMountTargets"

\* The call has come to its page loop: the steps before it have succeeded.
PageLoopReached ==
    CASE op.name = "EFS.VolumesList" -> TRUE
      [] op.name = "EFS.VolumeCreateFromSnapshot" ->
            Len(reqs) >= 1 /\ reqs[1].err = NoErr
      [] op.name = "EFS.SnapshotCreate" -> op.desc # Nil

\* The positions of the page requests, which the calls issue with no other
\* request between them.
Pages == Positions(PageApi)

\* The page loop has ended without an error.
PageLoopDone ==
    /\ Pages # {}
    /\ \E p \in Pages :
          /\ \A q \in Pages : q <= p
          /\ reqs[p].err = NoErr
          /\ reqs[p].state = ""

\* C34: the page loops of efs.VolumesList, getBackupTags and
\* getMountPointAndSecurityGroupTags request the first page, without a
\* marker; every later request carries the marker of the answer before it;
\* the loop goes on after an answer with a marker and ends after an answer
\* without one; no page is requested twice, and the items of all pages are
\* the result; a failed request ends the call with an error and no result.
C34_PageLoop ==
    /\ ( PageLoopReached /\ pc # PageLoopPc ) => Pages # {}
    /\ \A p \in Pages :
          /\ ( \A q \in Pages : p <= q ) => reqs[p].input.Marker = Nil
          /\ p + 1 \in Pages
                => /\ reqs[p].err = NoErr
                   /\ reqs[p].state # ""
                   /\ reqs[p + 1].input.Marker = StringPtr(reqs[p].state)
          /\ ( p - 1 \notin Pages ) => \A q \in Pages : p <= q
          /\ ( p + 1 \notin Pages /\ reqs[p].err = NoErr
                 /\ reqs[p].state # "" )
                => /\ pc = PageLoopPc
                   /\ p = Len(reqs)
          /\ \A q \in Pages :
                reqs[p].input.Marker = reqs[q].input.Marker => p = q
          /\ reqs[p].err # NoErr
                => /\ p = Len(reqs)
                   /\ pc = "done"
                   /\ out.kind = "error"
                   /\ op.name = "EFS.VolumesList"
                         => out = FailedList(reqs[p].err)
    /\ PageLoopDone =>
          /\ pc # PageLoopPc \/ op.name = "EFS.VolumesList"
          /\ Cardinality(Pages) * efsBackend.pageSize >= Len(PagedItems)
          /\ ( Cardinality(Pages) - 1 ) * efsBackend.pageSize
                 < Len(PagedItems) \/ Cardinality(Pages) = 1
          /\ op.name = "EFS.VolumesList" =>
                /\ op.result = volumesFromEFSDescriptions(
                                   filterAvailable(filterWithTags(
                                       efsBackend.fileSystems, op.tags)),
                                   op.zone)
                /\ pc = "done" => out = ReturnedList(op.result)
          /\ op.name = "EFS.VolumeCreateFromSnapshot" =>
                op.rp2Tags = KeyValueToMap(efsBackend.tags)
          /\ ( op.name = "EFS.SnapshotCreate"
                 /\ Positions("efs.DescribeMountTargetSecurityGroups") = {} )
                => op.mts = efsBackend.mountTargets

\* C34 witness: VolumesList has returned the two file systems that match,
\* out of three it was given in three pages.
C34_Witness ==
    /\ op.name = "EFS.VolumesList"
    /\ pc = "done"
    /\ out.kind = "ok"
    /\ Cardinality(Pages) = 3
    /\ Len(out.list) = 2


\* C35: the metadata of every StartRestoreJob request of
\* efs.VolumeCreateFromSnapshot holds newFileSystem = "true", Encrypted =
\* "false", PerformanceMode = generalPurpose and a CreationToken, whatever
\* the restore metadata and the tags of the recovery point are.
C35_RestoreBundleAlwaysPresent ==
    op.name = "EFS.VolumeCreateFromSnapshot" =>
        \A j \in Positions("backup.StartRestoreJob") :
           LET metadata == reqs[j].input.Metadata
           IN  /\ {"newFileSystem", "Encrypted", "PerformanceMode",
                   "CreationToken"} \subseteq DOMAIN metadata
               /\ metadata["newFileSystem"] = "true"
               /\ metadata["Encrypted"] = "false"
               /\ metadata["PerformanceMode"] = "generalPurpose"


(***************************************************************************)
(* Properties of the reconciler of ActionSets, under ReconcileSpec.        *)
(***************************************************************************)

\* The steps of the Reconcile in progress that are handlers of the
\* controller, and the handlers they are.
HandlerSteps ==
    {i \in 1..Len(reqs) : reqs[i].api \in {"onDelete", "onAdd", "onUpdate"}}
HandlersInvoked == {reqs[i].api : i \in HandlerSteps}

\* The Reconcile has found the ActionSet, and has returned.
Found == reqs # <<>> /\ reqs[1].err = NoErr
ReconcileReturned == reqs # <<>> /\ pc = "done"

\* An update of the Reconcile has failed.
UpdateFailed ==
    \E j \in 1..Len(reqs) : reqs[j].api = "Update" /\ reqs[j].err # NoErr

\* Before step i of the Reconcile the object has the finalizer of the
\* reconciler: it was fetched with it, or an update has written it.
FinalizerPresentBefore(i) ==
    \/ \E k \in 1..Len(op.fetched.finalizers) :
          op.fetched.finalizers[k] = ActionSetFinalizer
    \/ \E j \in 1..(i - 1) :
          /\ reqs[j].api = "Update"
          /\ reqs[j].err = NoErr
          /\ reqs[j].finalizers = <<ActionSetFinalizer>>

\* C40: a Reconcile that does not find the ActionSet invokes no handler and
\* returns success without requeue; one that finds it invokes at most one
\* handler: onDelete for an object with a deletion timestamp, otherwise
\* onAdd for one without status, otherwise onUpdate; onAdd is invoked only
\* after the object has the finalizer, fetched with it or written with
\* success, and not after the write has failed; and the finalizers are
\* cleared only after onDelete.
C40_ReconcileDispatch ==
    /\ ( reqs # <<>> /\ reqs[1].err = "NotFound" ) =>
          /\ HandlerSteps = {}
          /\ pc = "done"
          /\ out = ReconcileResult(NoErr)
    /\ Cardinality(HandlerSteps) <= 1
    /\ ( Found /\ ReconcileReturned ) =>
          HandlersInvoked =
              IF op.fetched.deletionTimestamp THEN {"onDelete"}
              ELSE IF op.fetched.status THEN {"onUpdate"}
              ELSE IF UpdateFailed THEN {} ELSE {"onAdd"}
    /\ \A i \in HandlerSteps :
          reqs[i].api = "onAdd" =>
              FinalizerPresentBefore(i) /\ ~UpdateFailed
    /\ \A j \in 1..Len(reqs) :
          ( reqs[j].api = "Update" /\ reqs[j].finalizers = <<>> ) =>
              \E i \in 1..(j - 1) : reqs[i].api = "onDelete"


====
